---------------------------- MODULE Spec2Model ----------------------------
(***************************************************************************)
(* A model of cfnts: the NTP/NTS wire codec (src/ntp/protocol.rs), the     *)
(* NTP/NTS responder (src/ntp/server.rs) and the NTS-KE client             *)
(* (src/nts_ke/client.rs).                                                 *)
(*                                                                         *)
(* Bytes are the integers 0..255 and a buffer is a sequence of bytes.      *)
(* A u16 is an integer 0..65535.  A u32 is a pair and a u64 a 4-tuple of   *)
(* base-65536 digits, most significant first (TLC's integers are 32 bits   *)
(* wide).  A Result is a record [st, val] with st one of "Ok", "Err" and   *)
(* "Abort" (a Rust panic).                                                 *)
(***************************************************************************)
EXTENDS Integers, Sequences, FiniteSets, TLC

Ok(v) == [st |-> "Ok", val |-> v]
Err(m) == [st |-> "Err", val |-> m]
Abort(m) == [st |-> "Abort", val |-> m]

Zeros(n) == [i \in 1..n |-> 0]
Fill(n, b) == [i \in 1..n |-> b]
Min(a, b) == IF a < b THEN a ELSE b

\* buff[from..to) with 0-based offsets, as a Rust slice
Slice(buff, from, to) == SubSeq(buff, from + 1, to)

(***************************************************************************)
(* Bit operations on non-negative integers.                                *)
(***************************************************************************)
RECURSIVE BitAnd(_, _)
BitAnd(a, b) ==
    IF a = 0 \/ b = 0 THEN 0
    ELSE (a % 2) * (b % 2) + 2 * BitAnd(a \div 2, b \div 2)

RECURSIVE BitOr(_, _)
BitOr(a, b) ==
    IF a = 0 THEN b
    ELSE IF b = 0 THEN a
    ELSE (IF a % 2 = 1 \/ b % 2 = 1 THEN 1 ELSE 0) + 2 * BitOr(a \div 2, b \div 2)

Pow2(k) == CASE k = 0 -> 1 [] k = 1 -> 2 [] k = 2 -> 4 [] k = 3 -> 8
             [] k = 4 -> 16 [] k = 5 -> 32 [] k = 6 -> 64 [] k = 7 -> 128

\* the byte b with bit k inverted
FlipBitOf(b, k) ==
    IF (b \div Pow2(k)) % 2 = 1 THEN b - Pow2(k) ELSE b + Pow2(k)

(***************************************************************************)
(* byteorder: big-endian readers and writers.                              *)
(***************************************************************************)
write_u8(v) == <<v % 256>>
write_i8(v) == <<(v + 256) % 256>>
write_u16(v) == <<(v \div 256) % 256, v % 256>>
write_u32(v) == write_u16(v[1]) \o write_u16(v[2])
write_u64(v) == write_u16(v[1]) \o write_u16(v[2]) \o write_u16(v[3]) \o write_u16(v[4])

\* readers take the buffer and the 0-based offset of the field
read_u8(buff, pos) == buff[pos + 1]
read_i8(buff, pos) == IF buff[pos + 1] >= 128 THEN buff[pos + 1] - 256 ELSE buff[pos + 1]
read_u16(buff, pos) == buff[pos + 1] * 256 + buff[pos + 2]
read_u32(buff, pos) == <<read_u16(buff, pos), read_u16(buff, pos + 2)>>
read_u64(buff, pos) ==
    <<read_u16(buff, pos), read_u16(buff, pos + 2),
      read_u16(buff, pos + 4), read_u16(buff, pos + 6)>>

\* Cursor::read into a zeroed vector of n bytes: copies what the buffer
\* still holds after pos and leaves the rest of the vector zero
ReadCount(buff, pos, n) == Min(n, Len(buff) - pos)
ReadInto(buff, pos, n) ==
    Slice(buff, pos, pos + ReadCount(buff, pos, n)) \o Zeros(n - ReadCount(buff, pos, n))

(***************************************************************************)
(* Constants of protocol.rs.                                               *)
(***************************************************************************)
VERSION == 4
HEADER_SIZE == 48
NONCE_LEN == 32
EXT_TYPE_UNIQUE_IDENTIFIER == 260
EXT_TYPE_NTS_COOKIE == 516
EXT_TYPE_NTS_COOKIE_PLACEHOLDER == 772
EXT_TYPE_NTS_AUTHENTICATOR == 1028

LeapStates == {"NoLeap", "Positive", "Negative", "Unknown"}
PacketModes == {"SymmetricActive", "SymmetricPassive", "Client", "Server",
                "Broadcast", "Invalid"}

\* `leap as u8` and `mode as u8`: the enums' discriminants
LeapAsU8(l) == CASE l = "NoLeap" -> 0 [] l = "Positive" -> 1
                 [] l = "Negative" -> 2 [] l = "Unknown" -> 3
ModeAsU8(m) == CASE m = "SymmetricActive" -> 1 [] m = "SymmetricPassive" -> 2
                 [] m = "Client" -> 3 [] m = "Server" -> 4
                 [] m = "Broadcast" -> 5 [] m = "Invalid" -> 6

\* NtpExtensionType: a record [tag, y]; y is the code of an Unknown(y)
UniqueIdentifier == [tag |-> "UniqueIdentifier", y |-> 0]
NTSCookie == [tag |-> "NTSCookie", y |-> 0]
NTSCookiePlaceholder == [tag |-> "NTSCookiePlaceholder", y |-> 0]
NTSAuthenticator == [tag |-> "NTSAuthenticator", y |-> 0]
Unknown(y) == [tag |-> "Unknown", y |-> y]

wire_type(x) ==
    CASE x.tag = "UniqueIdentifier" -> EXT_TYPE_UNIQUE_IDENTIFIER
      [] x.tag = "NTSCookie" -> EXT_TYPE_NTS_COOKIE
      [] x.tag = "NTSCookiePlaceholder" -> EXT_TYPE_NTS_COOKIE_PLACEHOLDER
      [] x.tag = "NTSAuthenticator" -> EXT_TYPE_NTS_AUTHENTICATOR
      [] x.tag = "Unknown" -> x.y

\* type_from_wire giving 0x0204 the placeholder's type
type_from_wire_cookie_as_placeholder(ext) ==
    CASE ext = EXT_TYPE_UNIQUE_IDENTIFIER -> UniqueIdentifier
      [] ext = EXT_TYPE_NTS_COOKIE -> NTSCookiePlaceholder
      [] ext = EXT_TYPE_NTS_COOKIE_PLACEHOLDER -> NTSCookiePlaceholder
      [] ext = EXT_TYPE_NTS_AUTHENTICATOR -> NTSAuthenticator
      [] OTHER -> Unknown(ext)

type_from_wire(ext) ==
    CASE ext = EXT_TYPE_UNIQUE_IDENTIFIER -> UniqueIdentifier
      [] ext = EXT_TYPE_NTS_COOKIE -> NTSCookie
      [] ext = EXT_TYPE_NTS_COOKIE_PLACEHOLDER -> NTSCookiePlaceholder
      [] ext = EXT_TYPE_NTS_AUTHENTICATOR -> NTSAuthenticator
      [] OTHER -> Unknown(ext)

NtpExtension(t, c) == [ext_type |-> t, contents |-> c]

(***************************************************************************)
(* The header codec.                                                       *)
(***************************************************************************)
parse_leap_indicator(first) ==
    CASE first \div 64 = 0 -> "NoLeap"
      [] first \div 64 = 1 -> "Positive"
      [] first \div 64 = 2 -> "Negative"
      [] OTHER -> "Unknown"

\* parse_version with the mask of a two-bit field
parse_version_mask24(first) == BitAnd(first, 24) \div 8

parse_version(first) == BitAnd(first, 56) \div 8

parse_mode(first) ==
    CASE BitAnd(first, 7) = 1 -> "SymmetricActive"
      [] BitAnd(first, 7) = 2 -> "SymmetricPassive"
      [] BitAnd(first, 7) = 3 -> "Client"
      [] BitAnd(first, 7) = 4 -> "Server"
      [] BitAnd(first, 7) = 5 -> "Broadcast"
      [] OTHER -> "Invalid"

create_first(leap, version, mode) ==
    BitOr(BitOr((LeapAsU8(leap) * 64) % 256, BitAnd((version * 8) % 256, 56)),
          BitAnd(ModeAsU8(mode), 7))

parse_packet_header(packet) ==
    IF Len(packet) < 48 THEN Err("Too short")
    ELSE Ok([leap_indicator |-> parse_leap_indicator(read_u8(packet, 0)),
             version |-> parse_version(read_u8(packet, 0)),
             mode |-> parse_mode(read_u8(packet, 0)),
             stratum |-> read_u8(packet, 1),
             poll |-> read_i8(packet, 2),
             precision |-> read_i8(packet, 3),
             root_delay |-> read_u32(packet, 4),
             root_dispersion |-> read_u32(packet, 8),
             reference_id |-> read_u32(packet, 12),
             reference_timestamp |-> read_u64(packet, 16),
             origin_timestamp |-> read_u64(packet, 24),
             receive_timestamp |-> read_u64(packet, 32),
             transmit_timestamp |-> read_u64(packet, 40)])

serialize_header(head) ==
    write_u8(create_first(head.leap_indicator, head.version, head.mode))
    \o write_u8(head.stratum)
    \o write_i8(head.poll)
    \o write_i8(head.precision)
    \o write_u32(head.root_delay)
    \o write_u32(head.root_dispersion)
    \o write_u32(head.reference_id)
    \o write_u64(head.reference_timestamp)
    \o write_u64(head.origin_timestamp)
    \o write_u64(head.receive_timestamp)
    \o write_u64(head.transmit_timestamp)

(***************************************************************************)
(* The extension list codec.                                               *)
(***************************************************************************)
\* the loop of parse_extensions, from 0-based offset pos with retval so far
RECURSIVE parse_extensions_from(_, _, _)
parse_extensions_from(buff, pos, retval) ==
    IF Len(buff) - pos < 4 THEN Ok(retval)
    ELSE LET ext_type == read_u16(buff, pos)
             ext_len == read_u16(buff, pos + 2)
         IN  IF ext_len % 4 # 0 THEN Err("extension not on word boundary")
             ELSE IF ext_len < 4 THEN Err("extension too short")
             ELSE parse_extensions_from(
                      buff,
                      pos + 4 + ReadCount(buff, pos + 4, ext_len - 4),
                      Append(retval,
                             NtpExtension(type_from_wire(ext_type),
                                          ReadInto(buff, pos + 4, ext_len - 4))))

parse_extensions(buff) == parse_extensions_from(buff, 0, <<>>)

parse_ntp_packet(buff) ==
    LET header == parse_packet_header(buff)
    IN  IF header.st # "Ok" THEN header
        ELSE LET extensions == parse_extensions(Slice(buff, 48, Len(buff)))
             IN  IF extensions.st # "Ok" THEN extensions
                 ELSE Ok([header |-> header.val, exts |-> extensions.val])

\* serialize_extensions: Abort when an extension's contents are not a
\* whole number of words (the panic of line 258)
RECURSIVE serialize_extensions_from(_, _, _)
serialize_extensions_from(exts, i, buff) ==
    IF i > Len(exts) THEN Ok(buff)
    ELSE IF Len(exts[i].contents) % 4 # 0 THEN Abort("extension is the wrong length")
    ELSE serialize_extensions_from(
             exts, i + 1,
             buff \o write_u16(wire_type(exts[i].ext_type))
                  \o write_u16((Len(exts[i].contents) + 4) % 65536)
                  \o exts[i].contents)

serialize_extensions(exts) == serialize_extensions_from(exts, 1, <<>>)

serialize_ntp_packet(pack) ==
    LET e == serialize_extensions(pack.exts)
    IN  IF e.st # "Ok" THEN e
        ELSE Ok(serialize_header(pack.header) \o e.val)

has_extension(pack, kind) ==
    \E i \in 1..Len(pack.exts) : pack.exts[i].ext_type = kind

is_nts_packet(pack) ==
    /\ has_extension(pack, NTSCookie)
    /\ has_extension(pack, NTSAuthenticator)
    /\ has_extension(pack, UniqueIdentifier)

\* the first extension of the kind; called only where has_extension holds
extract_extension(pack, kind) ==
    pack.exts[CHOOSE i \in 1..Len(pack.exts) :
                  /\ pack.exts[i].ext_type = kind
                  /\ \A j \in 1..(i - 1) : pack.exts[j].ext_type # kind]

(***************************************************************************)
(* The AEAD is miscreant's Aes128SivAead (an external library): AES-SIV    *)
(* with CMAC (RFC 5297).  The key's first half keys the CMAC of S2V, its   *)
(* second half the CTR mode; the headers of S2V are the associated data    *)
(* and the nonce, in this order; the output is the synthetic IV followed   *)
(* by the ciphertext.                                                      *)
(*                                                                         *)
(* Bytes are 0..255.  XOR is computed on the spread form of a byte, which  *)
(* has one octal digit per bit: the sum of up to seven spread bytes has in *)
(* each digit the number of ones of that bit, and the XOR is its parity.   *)
(***************************************************************************)
\* the length of the synthetic IV
AEAD_TAG_LEN == 16

\* the spread form of the bytes 0..255
Spread ==
    <<
     0, 1, 8, 9, 64, 65, 72, 73,
     512, 513, 520, 521, 576, 577, 584, 585,
     4096, 4097, 4104, 4105, 4160, 4161, 4168, 4169,
     4608, 4609, 4616, 4617, 4672, 4673, 4680, 4681,
     32768, 32769, 32776, 32777, 32832, 32833, 32840, 32841,
     33280, 33281, 33288, 33289, 33344, 33345, 33352, 33353,
     36864, 36865, 36872, 36873, 36928, 36929, 36936, 36937,
     37376, 37377, 37384, 37385, 37440, 37441, 37448, 37449,
     262144, 262145, 262152, 262153, 262208, 262209, 262216, 262217,
     262656, 262657, 262664, 262665, 262720, 262721, 262728, 262729,
     266240, 266241, 266248, 266249, 266304, 266305, 266312, 266313,
     266752, 266753, 266760, 266761, 266816, 266817, 266824, 266825,
     294912, 294913, 294920, 294921, 294976, 294977, 294984, 294985,
     295424, 295425, 295432, 295433, 295488, 295489, 295496, 295497,
     299008, 299009, 299016, 299017, 299072, 299073, 299080, 299081,
     299520, 299521, 299528, 299529, 299584, 299585, 299592, 299593,
     2097152, 2097153, 2097160, 2097161, 2097216, 2097217, 2097224, 2097225,
     2097664, 2097665, 2097672, 2097673, 2097728, 2097729, 2097736, 2097737,
     2101248, 2101249, 2101256, 2101257, 2101312, 2101313, 2101320, 2101321,
     2101760, 2101761, 2101768, 2101769, 2101824, 2101825, 2101832, 2101833,
     2129920, 2129921, 2129928, 2129929, 2129984, 2129985, 2129992, 2129993,
     2130432, 2130433, 2130440, 2130441, 2130496, 2130497, 2130504, 2130505,
     2134016, 2134017, 2134024, 2134025, 2134080, 2134081, 2134088, 2134089,
     2134528, 2134529, 2134536, 2134537, 2134592, 2134593, 2134600, 2134601,
     2359296, 2359297, 2359304, 2359305, 2359360, 2359361, 2359368, 2359369,
     2359808, 2359809, 2359816, 2359817, 2359872, 2359873, 2359880, 2359881,
     2363392, 2363393, 2363400, 2363401, 2363456, 2363457, 2363464, 2363465,
     2363904, 2363905, 2363912, 2363913, 2363968, 2363969, 2363976, 2363977,
     2392064, 2392065, 2392072, 2392073, 2392128, 2392129, 2392136, 2392137,
     2392576, 2392577, 2392584, 2392585, 2392640, 2392641, 2392648, 2392649,
     2396160, 2396161, 2396168, 2396169, 2396224, 2396225, 2396232, 2396233,
     2396672, 2396673, 2396680, 2396681, 2396736, 2396737, 2396744, 2396745 >>

\* the parities of the four octal digits of 0..4095, as a number in 0..15
Parity ==
    <<
     0, 1, 0, 1, 0, 1, 0, 1, 2, 3, 2, 3, 2, 3, 2, 3, 0, 1, 0, 1, 0, 1, 0, 1, 2, 3, 2, 3, 2, 3, 2, 3,
     0, 1, 0, 1, 0, 1, 0, 1, 2, 3, 2, 3, 2, 3, 2, 3, 0, 1, 0, 1, 0, 1, 0, 1, 2, 3, 2, 3, 2, 3, 2, 3,
     4, 5, 4, 5, 4, 5, 4, 5, 6, 7, 6, 7, 6, 7, 6, 7, 4, 5, 4, 5, 4, 5, 4, 5, 6, 7, 6, 7, 6, 7, 6, 7,
     4, 5, 4, 5, 4, 5, 4, 5, 6, 7, 6, 7, 6, 7, 6, 7, 4, 5, 4, 5, 4, 5, 4, 5, 6, 7, 6, 7, 6, 7, 6, 7,
     0, 1, 0, 1, 0, 1, 0, 1, 2, 3, 2, 3, 2, 3, 2, 3, 0, 1, 0, 1, 0, 1, 0, 1, 2, 3, 2, 3, 2, 3, 2, 3,
     0, 1, 0, 1, 0, 1, 0, 1, 2, 3, 2, 3, 2, 3, 2, 3, 0, 1, 0, 1, 0, 1, 0, 1, 2, 3, 2, 3, 2, 3, 2, 3,
     4, 5, 4, 5, 4, 5, 4, 5, 6, 7, 6, 7, 6, 7, 6, 7, 4, 5, 4, 5, 4, 5, 4, 5, 6, 7, 6, 7, 6, 7, 6, 7,
     4, 5, 4, 5, 4, 5, 4, 5, 6, 7, 6, 7, 6, 7, 6, 7, 4, 5, 4, 5, 4, 5, 4, 5, 6, 7, 6, 7, 6, 7, 6, 7,
     0, 1, 0, 1, 0, 1, 0, 1, 2, 3, 2, 3, 2, 3, 2, 3, 0, 1, 0, 1, 0, 1, 0, 1, 2, 3, 2, 3, 2, 3, 2, 3,
     0, 1, 0, 1, 0, 1, 0, 1, 2, 3, 2, 3, 2, 3, 2, 3, 0, 1, 0, 1, 0, 1, 0, 1, 2, 3, 2, 3, 2, 3, 2, 3,
     4, 5, 4, 5, 4, 5, 4, 5, 6, 7, 6, 7, 6, 7, 6, 7, 4, 5, 4, 5, 4, 5, 4, 5, 6, 7, 6, 7, 6, 7, 6, 7,
     4, 5, 4, 5, 4, 5, 4, 5, 6, 7, 6, 7, 6, 7, 6, 7, 4, 5, 4, 5, 4, 5, 4, 5, 6, 7, 6, 7, 6, 7, 6, 7,
     0, 1, 0, 1, 0, 1, 0, 1, 2, 3, 2, 3, 2, 3, 2, 3, 0, 1, 0, 1, 0, 1, 0, 1, 2, 3, 2, 3, 2, 3, 2, 3,
     0, 1, 0, 1, 0, 1, 0, 1, 2, 3, 2, 3, 2, 3, 2, 3, 0, 1, 0, 1, 0, 1, 0, 1, 2, 3, 2, 3, 2, 3, 2, 3,
     4, 5, 4, 5, 4, 5, 4, 5, 6, 7, 6, 7, 6, 7, 6, 7, 4, 5, 4, 5, 4, 5, 4, 5, 6, 7, 6, 7, 6, 7, 6, 7,
     4, 5, 4, 5, 4, 5, 4, 5, 6, 7, 6, 7, 6, 7, 6, 7, 4, 5, 4, 5, 4, 5, 4, 5, 6, 7, 6, 7, 6, 7, 6, 7,
     8, 9, 8, 9, 8, 9, 8, 9, 10, 11, 10, 11, 10, 11, 10, 11, 8, 9, 8, 9, 8, 9, 8, 9, 10, 11, 10, 11, 10, 11, 10, 11,
     8, 9, 8, 9, 8, 9, 8, 9, 10, 11, 10, 11, 10, 11, 10, 11, 8, 9, 8, 9, 8, 9, 8, 9, 10, 11, 10, 11, 10, 11, 10, 11,
     12, 13, 12, 13, 12, 13, 12, 13, 14, 15, 14, 15, 14, 15, 14, 15, 12, 13, 12, 13, 12, 13, 12, 13, 14, 15, 14, 15, 14, 15, 14, 15,
     12, 13, 12, 13, 12, 13, 12, 13, 14, 15, 14, 15, 14, 15, 14, 15, 12, 13, 12, 13, 12, 13, 12, 13, 14, 15, 14, 15, 14, 15, 14, 15,
     8, 9, 8, 9, 8, 9, 8, 9, 10, 11, 10, 11, 10, 11, 10, 11, 8, 9, 8, 9, 8, 9, 8, 9, 10, 11, 10, 11, 10, 11, 10, 11,
     8, 9, 8, 9, 8, 9, 8, 9, 10, 11, 10, 11, 10, 11, 10, 11, 8, 9, 8, 9, 8, 9, 8, 9, 10, 11, 10, 11, 10, 11, 10, 11,
     12, 13, 12, 13, 12, 13, 12, 13, 14, 15, 14, 15, 14, 15, 14, 15, 12, 13, 12, 13, 12, 13, 12, 13, 14, 15, 14, 15, 14, 15, 14, 15,
     12, 13, 12, 13, 12, 13, 12, 13, 14, 15, 14, 15, 14, 15, 14, 15, 12, 13, 12, 13, 12, 13, 12, 13, 14, 15, 14, 15, 14, 15, 14, 15,
     8, 9, 8, 9, 8, 9, 8, 9, 10, 11, 10, 11, 10, 11, 10, 11, 8, 9, 8, 9, 8, 9, 8, 9, 10, 11, 10, 11, 10, 11, 10, 11,
     8, 9, 8, 9, 8, 9, 8, 9, 10, 11, 10, 11, 10, 11, 10, 11, 8, 9, 8, 9, 8, 9, 8, 9, 10, 11, 10, 11, 10, 11, 10, 11,
     12, 13, 12, 13, 12, 13, 12, 13, 14, 15, 14, 15, 14, 15, 14, 15, 12, 13, 12, 13, 12, 13, 12, 13, 14, 15, 14, 15, 14, 15, 14, 15,
     12, 13, 12, 13, 12, 13, 12, 13, 14, 15, 14, 15, 14, 15, 14, 15, 12, 13, 12, 13, 12, 13, 12, 13, 14, 15, 14, 15, 14, 15, 14, 15,
     8, 9, 8, 9, 8, 9, 8, 9, 10, 11, 10, 11, 10, 11, 10, 11, 8, 9, 8, 9, 8, 9, 8, 9, 10, 11, 10, 11, 10, 11, 10, 11,
     8, 9, 8, 9, 8, 9, 8, 9, 10, 11, 10, 11, 10, 11, 10, 11, 8, 9, 8, 9, 8, 9, 8, 9, 10, 11, 10, 11, 10, 11, 10, 11,
     12, 13, 12, 13, 12, 13, 12, 13, 14, 15, 14, 15, 14, 15, 14, 15, 12, 13, 12, 13, 12, 13, 12, 13, 14, 15, 14, 15, 14, 15, 14, 15,
     12, 13, 12, 13, 12, 13, 12, 13, 14, 15, 14, 15, 14, 15, 14, 15, 12, 13, 12, 13, 12, 13, 12, 13, 14, 15, 14, 15, 14, 15, 14, 15,
     0, 1, 0, 1, 0, 1, 0, 1, 2, 3, 2, 3, 2, 3, 2, 3, 0, 1, 0, 1, 0, 1, 0, 1, 2, 3, 2, 3, 2, 3, 2, 3,
     0, 1, 0, 1, 0, 1, 0, 1, 2, 3, 2, 3, 2, 3, 2, 3, 0, 1, 0, 1, 0, 1, 0, 1, 2, 3, 2, 3, 2, 3, 2, 3,
     4, 5, 4, 5, 4, 5, 4, 5, 6, 7, 6, 7, 6, 7, 6, 7, 4, 5, 4, 5, 4, 5, 4, 5, 6, 7, 6, 7, 6, 7, 6, 7,
     4, 5, 4, 5, 4, 5, 4, 5, 6, 7, 6, 7, 6, 7, 6, 7, 4, 5, 4, 5, 4, 5, 4, 5, 6, 7, 6, 7, 6, 7, 6, 7,
     0, 1, 0, 1, 0, 1, 0, 1, 2, 3, 2, 3, 2, 3, 2, 3, 0, 1, 0, 1, 0, 1, 0, 1, 2, 3, 2, 3, 2, 3, 2, 3,
     0, 1, 0, 1, 0, 1, 0, 1, 2, 3, 2, 3, 2, 3, 2, 3, 0, 1, 0, 1, 0, 1, 0, 1, 2, 3, 2, 3, 2, 3, 2, 3,
     4, 5, 4, 5, 4, 5, 4, 5, 6, 7, 6, 7, 6, 7, 6, 7, 4, 5, 4, 5, 4, 5, 4, 5, 6, 7, 6, 7, 6, 7, 6, 7,
     4, 5, 4, 5, 4, 5, 4, 5, 6, 7, 6, 7, 6, 7, 6, 7, 4, 5, 4, 5, 4, 5, 4, 5, 6, 7, 6, 7, 6, 7, 6, 7,
     0, 1, 0, 1, 0, 1, 0, 1, 2, 3, 2, 3, 2, 3, 2, 3, 0, 1, 0, 1, 0, 1, 0, 1, 2, 3, 2, 3, 2, 3, 2, 3,
     0, 1, 0, 1, 0, 1, 0, 1, 2, 3, 2, 3, 2, 3, 2, 3, 0, 1, 0, 1, 0, 1, 0, 1, 2, 3, 2, 3, 2, 3, 2, 3,
     4, 5, 4, 5, 4, 5, 4, 5, 6, 7, 6, 7, 6, 7, 6, 7, 4, 5, 4, 5, 4, 5, 4, 5, 6, 7, 6, 7, 6, 7, 6, 7,
     4, 5, 4, 5, 4, 5, 4, 5, 6, 7, 6, 7, 6, 7, 6, 7, 4, 5, 4, 5, 4, 5, 4, 5, 6, 7, 6, 7, 6, 7, 6, 7,
     0, 1, 0, 1, 0, 1, 0, 1, 2, 3, 2, 3, 2, 3, 2, 3, 0, 1, 0, 1, 0, 1, 0, 1, 2, 3, 2, 3, 2, 3, 2, 3,
     0, 1, 0, 1, 0, 1, 0, 1, 2, 3, 2, 3, 2, 3, 2, 3, 0, 1, 0, 1, 0, 1, 0, 1, 2, 3, 2, 3, 2, 3, 2, 3,
     4, 5, 4, 5, 4, 5, 4, 5, 6, 7, 6, 7, 6, 7, 6, 7, 4, 5, 4, 5, 4, 5, 4, 5, 6, 7, 6, 7, 6, 7, 6, 7,
     4, 5, 4, 5, 4, 5, 4, 5, 6, 7, 6, 7, 6, 7, 6, 7, 4, 5, 4, 5, 4, 5, 4, 5, 6, 7, 6, 7, 6, 7, 6, 7,
     8, 9, 8, 9, 8, 9, 8, 9, 10, 11, 10, 11, 10, 11, 10, 11, 8, 9, 8, 9, 8, 9, 8, 9, 10, 11, 10, 11, 10, 11, 10, 11,
     8, 9, 8, 9, 8, 9, 8, 9, 10, 11, 10, 11, 10, 11, 10, 11, 8, 9, 8, 9, 8, 9, 8, 9, 10, 11, 10, 11, 10, 11, 10, 11,
     12, 13, 12, 13, 12, 13, 12, 13, 14, 15, 14, 15, 14, 15, 14, 15, 12, 13, 12, 13, 12, 13, 12, 13, 14, 15, 14, 15, 14, 15, 14, 15,
     12, 13, 12, 13, 12, 13, 12, 13, 14, 15, 14, 15, 14, 15, 14, 15, 12, 13, 12, 13, 12, 13, 12, 13, 14, 15, 14, 15, 14, 15, 14, 15,
     8, 9, 8, 9, 8, 9, 8, 9, 10, 11, 10, 11, 10, 11, 10, 11, 8, 9, 8, 9, 8, 9, 8, 9, 10, 11, 10, 11, 10, 11, 10, 11,
     8, 9, 8, 9, 8, 9, 8, 9, 10, 11, 10, 11, 10, 11, 10, 11, 8, 9, 8, 9, 8, 9, 8, 9, 10, 11, 10, 11, 10, 11, 10, 11,
     12, 13, 12, 13, 12, 13, 12, 13, 14, 15, 14, 15, 14, 15, 14, 15, 12, 13, 12, 13, 12, 13, 12, 13, 14, 15, 14, 15, 14, 15, 14, 15,
     12, 13, 12, 13, 12, 13, 12, 13, 14, 15, 14, 15, 14, 15, 14, 15, 12, 13, 12, 13, 12, 13, 12, 13, 14, 15, 14, 15, 14, 15, 14, 15,
     8, 9, 8, 9, 8, 9, 8, 9, 10, 11, 10, 11, 10, 11, 10, 11, 8, 9, 8, 9, 8, 9, 8, 9, 10, 11, 10, 11, 10, 11, 10, 11,
     8, 9, 8, 9, 8, 9, 8, 9, 10, 11, 10, 11, 10, 11, 10, 11, 8, 9, 8, 9, 8, 9, 8, 9, 10, 11, 10, 11, 10, 11, 10, 11,
     12, 13, 12, 13, 12, 13, 12, 13, 14, 15, 14, 15, 14, 15, 14, 15, 12, 13, 12, 13, 12, 13, 12, 13, 14, 15, 14, 15, 14, 15, 14, 15,
     12, 13, 12, 13, 12, 13, 12, 13, 14, 15, 14, 15, 14, 15, 14, 15, 12, 13, 12, 13, 12, 13, 12, 13, 14, 15, 14, 15, 14, 15, 14, 15,
     8, 9, 8, 9, 8, 9, 8, 9, 10, 11, 10, 11, 10, 11, 10, 11, 8, 9, 8, 9, 8, 9, 8, 9, 10, 11, 10, 11, 10, 11, 10, 11,
     8, 9, 8, 9, 8, 9, 8, 9, 10, 11, 10, 11, 10, 11, 10, 11, 8, 9, 8, 9, 8, 9, 8, 9, 10, 11, 10, 11, 10, 11, 10, 11,
     12, 13, 12, 13, 12, 13, 12, 13, 14, 15, 14, 15, 14, 15, 14, 15, 12, 13, 12, 13, 12, 13, 12, 13, 14, 15, 14, 15, 14, 15, 14, 15,
     12, 13, 12, 13, 12, 13, 12, 13, 14, 15, 14, 15, 14, 15, 14, 15, 12, 13, 12, 13, 12, 13, 12, 13, 14, 15, 14, 15, 14, 15, 14, 15,
     0, 1, 0, 1, 0, 1, 0, 1, 2, 3, 2, 3, 2, 3, 2, 3, 0, 1, 0, 1, 0, 1, 0, 1, 2, 3, 2, 3, 2, 3, 2, 3,
     0, 1, 0, 1, 0, 1, 0, 1, 2, 3, 2, 3, 2, 3, 2, 3, 0, 1, 0, 1, 0, 1, 0, 1, 2, 3, 2, 3, 2, 3, 2, 3,
     4, 5, 4, 5, 4, 5, 4, 5, 6, 7, 6, 7, 6, 7, 6, 7, 4, 5, 4, 5, 4, 5, 4, 5, 6, 7, 6, 7, 6, 7, 6, 7,
     4, 5, 4, 5, 4, 5, 4, 5, 6, 7, 6, 7, 6, 7, 6, 7, 4, 5, 4, 5, 4, 5, 4, 5, 6, 7, 6, 7, 6, 7, 6, 7,
     0, 1, 0, 1, 0, 1, 0, 1, 2, 3, 2, 3, 2, 3, 2, 3, 0, 1, 0, 1, 0, 1, 0, 1, 2, 3, 2, 3, 2, 3, 2, 3,
     0, 1, 0, 1, 0, 1, 0, 1, 2, 3, 2, 3, 2, 3, 2, 3, 0, 1, 0, 1, 0, 1, 0, 1, 2, 3, 2, 3, 2, 3, 2, 3,
     4, 5, 4, 5, 4, 5, 4, 5, 6, 7, 6, 7, 6, 7, 6, 7, 4, 5, 4, 5, 4, 5, 4, 5, 6, 7, 6, 7, 6, 7, 6, 7,
     4, 5, 4, 5, 4, 5, 4, 5, 6, 7, 6, 7, 6, 7, 6, 7, 4, 5, 4, 5, 4, 5, 4, 5, 6, 7, 6, 7, 6, 7, 6, 7,
     0, 1, 0, 1, 0, 1, 0, 1, 2, 3, 2, 3, 2, 3, 2, 3, 0, 1, 0, 1, 0, 1, 0, 1, 2, 3, 2, 3, 2, 3, 2, 3,
     0, 1, 0, 1, 0, 1, 0, 1, 2, 3, 2, 3, 2, 3, 2, 3, 0, 1, 0, 1, 0, 1, 0, 1, 2, 3, 2, 3, 2, 3, 2, 3,
     4, 5, 4, 5, 4, 5, 4, 5, 6, 7, 6, 7, 6, 7, 6, 7, 4, 5, 4, 5, 4, 5, 4, 5, 6, 7, 6, 7, 6, 7, 6, 7,
     4, 5, 4, 5, 4, 5, 4, 5, 6, 7, 6, 7, 6, 7, 6, 7, 4, 5, 4, 5, 4, 5, 4, 5, 6, 7, 6, 7, 6, 7, 6, 7,
     0, 1, 0, 1, 0, 1, 0, 1, 2, 3, 2, 3, 2, 3, 2, 3, 0, 1, 0, 1, 0, 1, 0, 1, 2, 3, 2, 3, 2, 3, 2, 3,
     0, 1, 0, 1, 0, 1, 0, 1, 2, 3, 2, 3, 2, 3, 2, 3, 0, 1, 0, 1, 0, 1, 0, 1, 2, 3, 2, 3, 2, 3, 2, 3,
     4, 5, 4, 5, 4, 5, 4, 5, 6, 7, 6, 7, 6, 7, 6, 7, 4, 5, 4, 5, 4, 5, 4, 5, 6, 7, 6, 7, 6, 7, 6, 7,
     4, 5, 4, 5, 4, 5, 4, 5, 6, 7, 6, 7, 6, 7, 6, 7, 4, 5, 4, 5, 4, 5, 4, 5, 6, 7, 6, 7, 6, 7, 6, 7,
     8, 9, 8, 9, 8, 9, 8, 9, 10, 11, 10, 11, 10, 11, 10, 11, 8, 9, 8, 9, 8, 9, 8, 9, 10, 11, 10, 11, 10, 11, 10, 11,
     8, 9, 8, 9, 8, 9, 8, 9, 10, 11, 10, 11, 10, 11, 10, 11, 8, 9, 8, 9, 8, 9, 8, 9, 10, 11, 10, 11, 10, 11, 10, 11,
     12, 13, 12, 13, 12, 13, 12, 13, 14, 15, 14, 15, 14, 15, 14, 15, 12, 13, 12, 13, 12, 13, 12, 13, 14, 15, 14, 15, 14, 15, 14, 15,
     12, 13, 12, 13, 12, 13, 12, 13, 14, 15, 14, 15, 14, 15, 14, 15, 12, 13, 12, 13, 12, 13, 12, 13, 14, 15, 14, 15, 14, 15, 14, 15,
     8, 9, 8, 9, 8, 9, 8, 9, 10, 11, 10, 11, 10, 11, 10, 11, 8, 9, 8, 9, 8, 9, 8, 9, 10, 11, 10, 11, 10, 11, 10, 11,
     8, 9, 8, 9, 8, 9, 8, 9, 10, 11, 10, 11, 10, 11, 10, 11, 8, 9, 8, 9, 8, 9, 8, 9, 10, 11, 10, 11, 10, 11, 10, 11,
     12, 13, 12, 13, 12, 13, 12, 13, 14, 15, 14, 15, 14, 15, 14, 15, 12, 13, 12, 13, 12, 13, 12, 13, 14, 15, 14, 15, 14, 15, 14, 15,
     12, 13, 12, 13, 12, 13, 12, 13, 14, 15, 14, 15, 14, 15, 14, 15, 12, 13, 12, 13, 12, 13, 12, 13, 14, 15, 14, 15, 14, 15, 14, 15,
     8, 9, 8, 9, 8, 9, 8, 9, 10, 11, 10, 11, 10, 11, 10, 11, 8, 9, 8, 9, 8, 9, 8, 9, 10, 11, 10, 11, 10, 11, 10, 11,
     8, 9, 8, 9, 8, 9, 8, 9, 10, 11, 10, 11, 10, 11, 10, 11, 8, 9, 8, 9, 8, 9, 8, 9, 10, 11, 10, 11, 10, 11, 10, 11,
     12, 13, 12, 13, 12, 13, 12, 13, 14, 15, 14, 15, 14, 15, 14, 15, 12, 13, 12, 13, 12, 13, 12, 13, 14, 15, 14, 15, 14, 15, 14, 15,
     12, 13, 12, 13, 12, 13, 12, 13, 14, 15, 14, 15, 14, 15, 14, 15, 12, 13, 12, 13, 12, 13, 12, 13, 14, 15, 14, 15, 14, 15, 14, 15,
     8, 9, 8, 9, 8, 9, 8, 9, 10, 11, 10, 11, 10, 11, 10, 11, 8, 9, 8, 9, 8, 9, 8, 9, 10, 11, 10, 11, 10, 11, 10, 11,
     8, 9, 8, 9, 8, 9, 8, 9, 10, 11, 10, 11, 10, 11, 10, 11, 8, 9, 8, 9, 8, 9, 8, 9, 10, 11, 10, 11, 10, 11, 10, 11,
     12, 13, 12, 13, 12, 13, 12, 13, 14, 15, 14, 15, 14, 15, 14, 15, 12, 13, 12, 13, 12, 13, 12, 13, 14, 15, 14, 15, 14, 15, 14, 15,
     12, 13, 12, 13, 12, 13, 12, 13, 14, 15, 14, 15, 14, 15, 14, 15, 12, 13, 12, 13, 12, 13, 12, 13, 14, 15, 14, 15, 14, 15, 14, 15,
     0, 1, 0, 1, 0, 1, 0, 1, 2, 3, 2, 3, 2, 3, 2, 3, 0, 1, 0, 1, 0, 1, 0, 1, 2, 3, 2, 3, 2, 3, 2, 3,
     0, 1, 0, 1, 0, 1, 0, 1, 2, 3, 2, 3, 2, 3, 2, 3, 0, 1, 0, 1, 0, 1, 0, 1, 2, 3, 2, 3, 2, 3, 2, 3,
     4, 5, 4, 5, 4, 5, 4, 5, 6, 7, 6, 7, 6, 7, 6, 7, 4, 5, 4, 5, 4, 5, 4, 5, 6, 7, 6, 7, 6, 7, 6, 7,
     4, 5, 4, 5, 4, 5, 4, 5, 6, 7, 6, 7, 6, 7, 6, 7, 4, 5, 4, 5, 4, 5, 4, 5, 6, 7, 6, 7, 6, 7, 6, 7,
     0, 1, 0, 1, 0, 1, 0, 1, 2, 3, 2, 3, 2, 3, 2, 3, 0, 1, 0, 1, 0, 1, 0, 1, 2, 3, 2, 3, 2, 3, 2, 3,
     0, 1, 0, 1, 0, 1, 0, 1, 2, 3, 2, 3, 2, 3, 2, 3, 0, 1, 0, 1, 0, 1, 0, 1, 2, 3, 2, 3, 2, 3, 2, 3,
     4, 5, 4, 5, 4, 5, 4, 5, 6, 7, 6, 7, 6, 7, 6, 7, 4, 5, 4, 5, 4, 5, 4, 5, 6, 7, 6, 7, 6, 7, 6, 7,
     4, 5, 4, 5, 4, 5, 4, 5, 6, 7, 6, 7, 6, 7, 6, 7, 4, 5, 4, 5, 4, 5, 4, 5, 6, 7, 6, 7, 6, 7, 6, 7,
     0, 1, 0, 1, 0, 1, 0, 1, 2, 3, 2, 3, 2, 3, 2, 3, 0, 1, 0, 1, 0, 1, 0, 1, 2, 3, 2, 3, 2, 3, 2, 3,
     0, 1, 0, 1, 0, 1, 0, 1, 2, 3, 2, 3, 2, 3, 2, 3, 0, 1, 0, 1, 0, 1, 0, 1, 2, 3, 2, 3, 2, 3, 2, 3,
     4, 5, 4, 5, 4, 5, 4, 5, 6, 7, 6, 7, 6, 7, 6, 7, 4, 5, 4, 5, 4, 5, 4, 5, 6, 7, 6, 7, 6, 7, 6, 7,
     4, 5, 4, 5, 4, 5, 4, 5, 6, 7, 6, 7, 6, 7, 6, 7, 4, 5, 4, 5, 4, 5, 4, 5, 6, 7, 6, 7, 6, 7, 6, 7,
     0, 1, 0, 1, 0, 1, 0, 1, 2, 3, 2, 3, 2, 3, 2, 3, 0, 1, 0, 1, 0, 1, 0, 1, 2, 3, 2, 3, 2, 3, 2, 3,
     0, 1, 0, 1, 0, 1, 0, 1, 2, 3, 2, 3, 2, 3, 2, 3, 0, 1, 0, 1, 0, 1, 0, 1, 2, 3, 2, 3, 2, 3, 2, 3,
     4, 5, 4, 5, 4, 5, 4, 5, 6, 7, 6, 7, 6, 7, 6, 7, 4, 5, 4, 5, 4, 5, 4, 5, 6, 7, 6, 7, 6, 7, 6, 7,
     4, 5, 4, 5, 4, 5, 4, 5, 6, 7, 6, 7, 6, 7, 6, 7, 4, 5, 4, 5, 4, 5, 4, 5, 6, 7, 6, 7, 6, 7, 6, 7,
     8, 9, 8, 9, 8, 9, 8, 9, 10, 11, 10, 11, 10, 11, 10, 11, 8, 9, 8, 9, 8, 9, 8, 9, 10, 11, 10, 11, 10, 11, 10, 11,
     8, 9, 8, 9, 8, 9, 8, 9, 10, 11, 10, 11, 10, 11, 10, 11, 8, 9, 8, 9, 8, 9, 8, 9, 10, 11, 10, 11, 10, 11, 10, 11,
     12, 13, 12, 13, 12, 13, 12, 13, 14, 15, 14, 15, 14, 15, 14, 15, 12, 13, 12, 13, 12, 13, 12, 13, 14, 15, 14, 15, 14, 15, 14, 15,
     12, 13, 12, 13, 12, 13, 12, 13, 14, 15, 14, 15, 14, 15, 14, 15, 12, 13, 12, 13, 12, 13, 12, 13, 14, 15, 14, 15, 14, 15, 14, 15,
     8, 9, 8, 9, 8, 9, 8, 9, 10, 11, 10, 11, 10, 11, 10, 11, 8, 9, 8, 9, 8, 9, 8, 9, 10, 11, 10, 11, 10, 11, 10, 11,
     8, 9, 8, 9, 8, 9, 8, 9, 10, 11, 10, 11, 10, 11, 10, 11, 8, 9, 8, 9, 8, 9, 8, 9, 10, 11, 10, 11, 10, 11, 10, 11,
     12, 13, 12, 13, 12, 13, 12, 13, 14, 15, 14, 15, 14, 15, 14, 15, 12, 13, 12, 13, 12, 13, 12, 13, 14, 15, 14, 15, 14, 15, 14, 15,
     12, 13, 12, 13, 12, 13, 12, 13, 14, 15, 14, 15, 14, 15, 14, 15, 12, 13, 12, 13, 12, 13, 12, 13, 14, 15, 14, 15, 14, 15, 14, 15,
     8, 9, 8, 9, 8, 9, 8, 9, 10, 11, 10, 11, 10, 11, 10, 11, 8, 9, 8, 9, 8, 9, 8, 9, 10, 11, 10, 11, 10, 11, 10, 11,
     8, 9, 8, 9, 8, 9, 8, 9, 10, 11, 10, 11, 10, 11, 10, 11, 8, 9, 8, 9, 8, 9, 8, 9, 10, 11, 10, 11, 10, 11, 10, 11,
     12, 13, 12, 13, 12, 13, 12, 13, 14, 15, 14, 15, 14, 15, 14, 15, 12, 13, 12, 13, 12, 13, 12, 13, 14, 15, 14, 15, 14, 15, 14, 15,
     12, 13, 12, 13, 12, 13, 12, 13, 14, 15, 14, 15, 14, 15, 14, 15, 12, 13, 12, 13, 12, 13, 12, 13, 14, 15, 14, 15, 14, 15, 14, 15,
     8, 9, 8, 9, 8, 9, 8, 9, 10, 11, 10, 11, 10, 11, 10, 11, 8, 9, 8, 9, 8, 9, 8, 9, 10, 11, 10, 11, 10, 11, 10, 11,
     8, 9, 8, 9, 8, 9, 8, 9, 10, 11, 10, 11, 10, 11, 10, 11, 8, 9, 8, 9, 8, 9, 8, 9, 10, 11, 10, 11, 10, 11, 10, 11,
     12, 13, 12, 13, 12, 13, 12, 13, 14, 15, 14, 15, 14, 15, 14, 15, 12, 13, 12, 13, 12, 13, 12, 13, 14, 15, 14, 15, 14, 15, 14, 15,
     12, 13, 12, 13, 12, 13, 12, 13, 14, 15, 14, 15, 14, 15, 14, 15, 12, 13, 12, 13, 12, 13, 12, 13, 14, 15, 14, 15, 14, 15, 14, 15 >>

\* the byte whose bits are the parities of the digits of v
Unspread(v) == Parity[(v % 4096) + 1] + 16 * Parity[(v \div 4096) + 1]

Xor(a, b) == Unspread(Spread[a + 1] + Spread[b + 1])

\* a XOR b for byte strings of one length
XorSeq(a, b) == SubSeq([i \in 1..Len(a) |-> Xor(a[i], b[i])], 1, Len(b))

\* the AES S-box (FIPS 197)
SBox ==
    <<
     99, 124, 119, 123, 242, 107, 111, 197, 48, 1, 103, 43, 254, 215, 171, 118,
     202, 130, 201, 125, 250, 89, 71, 240, 173, 212, 162, 175, 156, 164, 114, 192,
     183, 253, 147, 38, 54, 63, 247, 204, 52, 165, 229, 241, 113, 216, 49, 21,
     4, 199, 35, 195, 24, 150, 5, 154, 7, 18, 128, 226, 235, 39, 178, 117,
     9, 131, 44, 26, 27, 110, 90, 160, 82, 59, 214, 179, 41, 227, 47, 132,
     83, 209, 0, 237, 32, 252, 177, 91, 106, 203, 190, 57, 74, 76, 88, 207,
     208, 239, 170, 251, 67, 77, 51, 133, 69, 249, 2, 127, 80, 60, 159, 168,
     81, 163, 64, 143, 146, 157, 56, 245, 188, 182, 218, 33, 16, 255, 243, 210,
     205, 12, 19, 236, 95, 151, 68, 23, 196, 167, 126, 61, 100, 93, 25, 115,
     96, 129, 79, 220, 34, 42, 144, 136, 70, 238, 184, 20, 222, 94, 11, 219,
     224, 50, 58, 10, 73, 6, 36, 92, 194, 211, 172, 98, 145, 149, 228, 121,
     231, 200, 55, 109, 141, 213, 78, 169, 108, 86, 244, 234, 101, 122, 174, 8,
     186, 120, 37, 46, 28, 166, 180, 198, 232, 221, 116, 31, 75, 189, 139, 138,
     112, 62, 181, 102, 72, 3, 246, 14, 97, 53, 87, 185, 134, 193, 29, 158,
     225, 248, 152, 17, 105, 217, 142, 148, 155, 30, 135, 233, 206, 85, 40, 223,
     140, 161, 137, 13, 191, 230, 66, 104, 65, 153, 45, 15, 176, 84, 187, 22 >>

\* multiplication by x in GF(2^8) modulo x^8 + x^4 + x^3 + x + 1
XTime ==
    <<
     0, 2, 4, 6, 8, 10, 12, 14, 16, 18, 20, 22, 24, 26, 28, 30,
     32, 34, 36, 38, 40, 42, 44, 46, 48, 50, 52, 54, 56, 58, 60, 62,
     64, 66, 68, 70, 72, 74, 76, 78, 80, 82, 84, 86, 88, 90, 92, 94,
     96, 98, 100, 102, 104, 106, 108, 110, 112, 114, 116, 118, 120, 122, 124, 126,
     128, 130, 132, 134, 136, 138, 140, 142, 144, 146, 148, 150, 152, 154, 156, 158,
     160, 162, 164, 166, 168, 170, 172, 174, 176, 178, 180, 182, 184, 186, 188, 190,
     192, 194, 196, 198, 200, 202, 204, 206, 208, 210, 212, 214, 216, 218, 220, 222,
     224, 226, 228, 230, 232, 234, 236, 238, 240, 242, 244, 246, 248, 250, 252, 254,
     27, 25, 31, 29, 19, 17, 23, 21, 11, 9, 15, 13, 3, 1, 7, 5,
     59, 57, 63, 61, 51, 49, 55, 53, 43, 41, 47, 45, 35, 33, 39, 37,
     91, 89, 95, 93, 83, 81, 87, 85, 75, 73, 79, 77, 67, 65, 71, 69,
     123, 121, 127, 125, 115, 113, 119, 117, 107, 105, 111, 109, 99, 97, 103, 101,
     155, 153, 159, 157, 147, 145, 151, 149, 139, 137, 143, 141, 131, 129, 135, 133,
     187, 185, 191, 189, 179, 177, 183, 181, 171, 169, 175, 173, 163, 161, 167, 165,
     219, 217, 223, 221, 211, 209, 215, 213, 203, 201, 207, 205, 195, 193, 199, 197,
     251, 249, 255, 253, 243, 241, 247, 245, 235, 233, 239, 237, 227, 225, 231, 229 >>

\* the spread forms of SBox[b], 2 * SBox[b] and 3 * SBox[b] in GF(2^8)
Sub1 ==
    <<
     294921, 299584, 299081, 299529, 2396168, 295433, 295497, 2359361,
     36864, 1, 294985, 33289, 2396744, 2363465, 2130441, 299080,
     2359816, 2097160, 2359809, 299585, 2396680, 266753, 262217, 2396160,
     2130497, 2363456, 2129928, 2130505, 2101824, 2129984, 299016, 2359296,
     2134089, 2396737, 2101257, 32840, 36936, 37449, 2396233, 2359872,
     36928, 2129985, 2392129, 2396161, 299009, 2363904, 36865, 4161,
     64, 2359369, 32777, 2359305, 4608, 2101320, 65, 2101768,
     73, 4104, 2097152, 2392072, 2392585, 32841, 2134024, 299073,
     513, 2097161, 33344, 4616, 4617, 295496, 266760, 2129920,
     266248, 37385, 2363464, 2134025, 33281, 2392073, 33353, 2097216,
     266249, 2363393, 0, 2392641, 32768, 2396736, 2134017, 266761,
     295432, 2359817, 2134600, 37377, 262664, 262720, 266752, 2359881,
     2363392, 2392649, 2130440, 2396681, 262153, 262721, 36873, 2097217,
     262209, 2396673, 8, 299593, 266240, 37440, 2101833, 2130432,
     266241, 2129929, 262144, 2097737, 2101256, 2101825, 37376, 2396225,
     2134592, 2134088, 2363912, 32769, 4096, 2396745, 2396169, 2363400,
     2359873, 576, 4105, 2392640, 266825, 2101321, 262208, 4169,
     2359360, 2129993, 299592, 37441, 294976, 266817, 4609, 299017,
     294912, 2097153, 262729, 2363968, 32776, 33288, 2101248, 2097664,
     262216, 2392648, 2134528, 4160, 2363976, 266824, 521, 2363913,
     2392064, 36872, 37384, 520, 262657, 72, 32832, 266816,
     2359304, 2363401, 2130496, 294920, 2101249, 2101313, 2392128, 299521,
     2392137, 2359808, 36937, 295489, 2097729, 2363457, 262728, 2130433,
     295488, 266312, 2396224, 2392584, 294977, 299528, 2130504, 512,
     2134536, 299520, 32833, 33352, 4672, 2129992, 2134080, 2359368,
     2392576, 2363969, 299072, 4681, 262665, 2134593, 2097673, 2097672,
     299008, 37448, 2134081, 294984, 262656, 9, 2396232, 584,
     294913, 36929, 266313, 2134529, 2097224, 2359297, 4673, 2101832,
     2392065, 2396672, 2101760, 4097, 295425, 2363905, 2097736, 2101312,
     2101769, 4680, 2097225, 2392577, 2359880, 266305, 33280, 2363977,
     2097728, 2129921, 2097665, 577, 2134601, 2392136, 262152, 295424,
     262145, 2101761, 33345, 585, 2134016, 266304, 2134537, 4168 >>
Sub2 ==
    <<
     2359368, 2396672, 2392648, 2396232, 2396745, 2363464, 2363976, 2101249,
     294912, 8, 2359880, 266312, 2392137, 2134081, 262721, 2392640,
     2097737, 4681, 2097665, 2396680, 2392649, 2134024, 2097736, 2396681,
     262145, 2134025, 266825, 262209, 32777, 266249, 2392128, 2101769,
     299073, 2392065, 37441, 262720, 295488, 299592, 2396225, 2097161,
     295424, 266241, 2363393, 2396673, 2392072, 2130441, 294920, 33288,
     512, 2101313, 262216, 2101825, 36864, 36937, 520, 33353,
     584, 32832, 4617, 2363977, 2359873, 262728, 299593, 2392584,
     4104, 4673, 266752, 36928, 36936, 2363968, 2134080, 266761,
     2129984, 299080, 2134089, 299585, 266248, 2363969, 266824, 4105,
     2129992, 2134529, 0, 2359297, 262144, 2392073, 299521, 2134088,
     2363456, 2097729, 294985, 299016, 2101312, 2101760, 2134016, 2097217,
     2134537, 2359361, 262729, 2392641, 2097224, 2101768, 294984, 4097,
     2097672, 2392577, 64, 2396744, 2129920, 299520, 32833, 262665,
     2129928, 266817, 2097152, 65, 37449, 32769, 299008, 2396161,
     294921, 299081, 2130505, 262152, 32768, 2392129, 2396737, 2134601,
     2097153, 4608, 32840, 2359305, 2134600, 36929, 2097664, 33352,
     2101257, 266305, 2396736, 299528, 2359808, 2134536, 36872, 2392136,
     2359296, 4609, 2101832, 2129929, 262208, 266304, 37385, 521,
     2097728, 2359369, 295433, 33280, 2129993, 2134592, 4168, 2130497,
     2363913, 294976, 299072, 4160, 2101256, 576, 262656, 2134528,
     2101833, 2134593, 262153, 2359360, 37377, 36865, 2363401, 2396168,
     2363457, 2097673, 295496, 2363912, 1, 2134017, 2101824, 262657,
     2363904, 2130496, 2396169, 2359881, 2359816, 2396224, 262217, 4096,
     295497, 2396160, 262664, 266816, 37376, 266313, 299017, 2101321,
     2359817, 2129921, 2392576, 37448, 2101320, 294913, 577, 585,
     2392064, 299584, 299009, 2359872, 2101248, 72, 2396233, 4672,
     2359304, 295432, 2130504, 295425, 4169, 2101761, 37384, 32841,
     2363905, 2392585, 33289, 32776, 2363400, 2130433, 73, 36873,
     33345, 37440, 4161, 2359809, 2097225, 2130440, 266240, 2129985,
     9, 266753, 513, 4616, 294977, 2363465, 2097216, 2363392,
     2097160, 33281, 266760, 4680, 299529, 2130432, 295489, 33344 >>
Sub3 ==
    <<
     2129985, 2097216, 2101761, 2097729, 577, 2134593, 2134017, 266304,
     266240, 9, 2130433, 299585, 4609, 294920, 2392136, 2101768,
     262209, 2101825, 262144, 2097225, 4161, 2392585, 2359809, 521,
     2392640, 294985, 2396737, 2392584, 2134601, 2396233, 2101320, 266761,
     2359304, 4672, 2130504, 295432, 266760, 262145, 8, 262729,
     266816, 2396224, 36928, 512, 2101257, 299017, 266249, 37449,
     576, 266248, 294977, 266824, 33280, 2129921, 585, 2134081,
     513, 36936, 2101769, 37441, 32840, 295425, 2359873, 2101833,
     4617, 2101832, 299072, 33352, 33345, 2134024, 2392648, 2396681,
     2396232, 262721, 294913, 2359880, 299529, 37448, 299009, 2101321,
     2396225, 295424, 0, 33344, 294912, 4681, 2359808, 2392641,
     2134600, 262216, 2363905, 262665, 2363976, 2363456, 2392576, 262664,
     295433, 33288, 2392129, 4168, 2359361, 2363465, 266305, 2101312,
     2359881, 4096, 72, 2097153, 2396160, 262208, 2134536, 2392073,
     2396169, 2396744, 2359296, 2097672, 2130497, 2134592, 262656, 64,
     2363977, 2359297, 299073, 294921, 36864, 4616, 584, 295489,
     262720, 4160, 36929, 33353, 2392065, 2129928, 2359872, 37377,
     266313, 2396168, 2097160, 262217, 2130496, 2392137, 33289, 2101313,
     2129920, 2101760, 2363393, 299593, 294984, 299592, 2130441, 2097161,
     2359816, 33281, 2363401, 37440, 299521, 2392072, 4673, 299080,
     37385, 266312, 262728, 4680, 2363913, 520, 295488, 2392128,
     266817, 295496, 2392649, 2129992, 2130432, 2129984, 36937, 2097673,
     36872, 262153, 266753, 2134089, 2097728, 294976, 2363400, 2392064,
     2134080, 2396680, 73, 32833, 2130505, 2097736, 2392577, 4608,
     2363457, 2097664, 295497, 299016, 32832, 2396161, 2359369, 266241,
     32777, 299584, 2101824, 32769, 2363969, 2363968, 2097224, 2097217,
     2101248, 262152, 2359360, 2130440, 2363904, 65, 1, 4104,
     2129929, 266825, 2396673, 2363392, 2101249, 266752, 32841, 2134529,
     37376, 4105, 2134025, 36873, 2134537, 299008, 2097665, 2129993,
     2134088, 32776, 2101256, 32768, 262657, 2396745, 299520, 299528,
     2097737, 2396672, 2097152, 4169, 2363912, 36865, 2359368, 2134528,
     2359305, 2134016, 299081, 4097, 2359817, 2396736, 2363464, 37384 >>

\* SubWord(RotWord(t)) XOR the round constant rc
SubRot(t, rc) ==
    <<Xor(SBox[t[2] + 1], rc), SBox[t[3] + 1], SBox[t[4] + 1], SBox[t[1] + 1]>>

\* word c of a round key: word c of the round key k before it, XOR the word
\* before (for word 0, t = SubRot of the last word of k)
RECURSIVE Word(_, _, _)
Word(k, t, c) ==
    XorSeq(SubSeq(k, 4 * c + 1, 4 * c + 4),
           IF c = 0 THEN t ELSE Word(k, t, c - 1))

RECURSIVE Words(_, _, _)
Words(k, t, c) == IF c = 4 THEN <<>> ELSE Word(k, t, c) \o Words(k, t, c + 1)

\* the round key after k
NextRoundKey(k, rc) == Words(k, SubRot(SubSeq(k, 13, 16), rc), 0)

\* the key expansion: w holds the round keys made so far, rc is the round
\* constant of the next
RECURSIVE KeyExpansion(_, _)
KeyExpansion(w, rc) ==
    IF Len(w) = 176 THEN w
    ELSE KeyExpansion(w \o NextRoundKey(SubSeq(w, Len(w) - 15, Len(w)), rc),
                      XTime[rc + 1])

\* the eleven round keys of a 16-byte key, one after the other
ExpandKey(key) == KeyExpansion(key, 1)

\* ShiftRows on a state kept column by column: the byte that moves to
\* position i, and the bytes of the following rows of the same column
Row0 == <<1, 6, 11, 16, 5, 10, 15, 4, 9, 14, 3, 8, 13, 2, 7, 12>>
Row1 == <<6, 11, 16, 1, 10, 15, 4, 5, 14, 3, 8, 9, 2, 7, 12, 13>>
Row2 == <<11, 16, 1, 6, 15, 4, 5, 10, 3, 8, 9, 14, 7, 12, 13, 2>>
Row3 == <<16, 1, 6, 11, 4, 5, 10, 15, 8, 9, 14, 3, 12, 13, 2, 7>>

\* one round on the state s: SubBytes, ShiftRows, MixColumns (2, 3, 1, 1
\* along the column, from the byte's own row on) and AddRoundKey with the
\* round key at w[k + 1 .. k + 16]
Round(s, w, k) ==
    SubSeq([i \in 1..16 |->
               Unspread(Sub2[s[Row0[i]] + 1] + Sub3[s[Row1[i]] + 1]
                        + Sub1[s[Row2[i]] + 1] + Sub1[s[Row3[i]] + 1]
                        + Spread[w[k + i] + 1])],
           1, 16)

\* the last round: SubBytes, ShiftRows and AddRoundKey
LastRound(s, w) ==
    SubSeq([i \in 1..16 |-> Xor(SBox[s[Row0[i]] + 1], w[160 + i])], 1, 16)

RECURSIVE Rounds(_, _, _)
Rounds(w, s, r) ==
    IF Len(s) = 16 /\ r < 10
    THEN Rounds(w, Round(s, w, 16 * r), r + 1)
    ELSE LastRound(s, w)

\* AES-128 of one block under the expanded key w
Encrypt(w, block) == Rounds(w, XorSeq(block, SubSeq(w, 1, 16)), 1)

ZeroBlock == <<0, 0, 0, 0, 0, 0, 0, 0, 0, 0, 0, 0, 0, 0, 0, 0>>

\* doubling in GF(2^128): shift left by one bit, XOR 0x87 into the last
\* byte when the top bit was set
Dbl(b) ==
    SubSeq([i \in 1..16 |->
               IF i < 16 THEN ((2 * b[i]) % 256) + (b[i + 1] \div 128)
               ELSE Xor((2 * b[16]) % 256, IF b[1] >= 128 THEN 135 ELSE 0)],
           1, Len(b))

\* the last block of a CMAC input: masked with the subkey k1 when whole,
\* padded with 0x80 and zeros and masked with Dbl(k1) otherwise
Pad(m) == m \o <<128>> \o SubSeq(ZeroBlock, 1, 15 - Len(m))
LastBlock(m, k1) ==
    IF Len(m) = 16 THEN XorSeq(m, k1) ELSE XorSeq(Pad(m), Dbl(k1))

\* the CBC chain through the blocks lo .. hi of m (16 bytes each, counted
\* from 1), x the block chained so far: the first half, then the second
RECURSIVE Cbc(_, _, _, _, _)
Cbc(w, m, lo, hi, x) ==
    IF Len(x) = 16 /\ lo < hi
    THEN Cbc(w, m, ((lo + hi) \div 2) + 1, hi,
             Cbc(w, m, lo, (lo + hi) \div 2, x))
    ELSE IF lo = hi
    THEN Encrypt(w, XorSeq(x, SubSeq(m, 16 * lo - 15, 16 * lo)))
    ELSE x

\* the number of blocks of m before its last
BlocksBeforeLast(m) == IF m = <<>> THEN 0 ELSE (Len(m) - 1) \div 16

\* CMAC (RFC 4493) of m; k1 is Dbl(Encrypt(w, ZeroBlock))
Cmac(w, k1, m) ==
    Encrypt(w, XorSeq(Cbc(w, m, 1, BlocksBeforeLast(m), ZeroBlock),
                      LastBlock(SubSeq(m, 16 * BlocksBeforeLast(m) + 1, Len(m)),
                                k1)))

\* S2V's last input: the plaintext with d XORed into its end, or padded
\* and XORed with Dbl(d) when it is shorter than a block
S2VLast(d, pt) ==
    IF Len(pt) >= 16
    THEN SubSeq(pt, 1, Len(pt) - 16)
         \o XorSeq(SubSeq(pt, Len(pt) - 15, Len(pt)), d)
    ELSE XorSeq(Dbl(d), Pad(pt))

\* S2V from the CMAC of the zero block on: d is the value so far, headers
\* the strings still to be taken in
RECURSIVE S2VChain(_, _, _, _, _)
S2VChain(w, k1, d, headers, pt) ==
    IF Len(d) = 16 /\ headers # <<>>
    THEN S2VChain(w, k1, XorSeq(Dbl(d), Cmac(w, k1, Head(headers))),
                  Tail(headers), pt)
    ELSE Cmac(w, k1, S2VLast(d, pt))

S2VKeyed(w, k1, headers, pt) ==
    S2VChain(w, k1, Cmac(w, k1, ZeroBlock), headers, pt)

S2VExpanded(w, headers, pt) ==
    S2VKeyed(w, Dbl(Encrypt(w, ZeroBlock)), headers, pt)

\* the synthetic IV of the associated data, the nonce and the plaintext
S2V(key, nonce, ad, pt) ==
    S2VExpanded(ExpandKey(SubSeq(key, 1, 16)), <<ad, nonce>>, pt)

\* ctr + n for a counter block ctr (a 128-bit big-endian number), i the
\* byte the carry n has reached
RECURSIVE AddCtr(_, _, _)
AddCtr(ctr, n, i) ==
    IF n = 0 \/ i = 0 THEN ctr
    ELSE AddCtr([ctr EXCEPT ![i] = (@ + n) % 256], (ctr[i] + n) \div 256, i - 1)

\* the first n blocks of the AES-CTR key stream that starts at ctr
CtrBlocks(w, ctr, n) ==
    SubSeq([j \in 1..n |-> Encrypt(w, AddCtr(ctr, j - 1, 16))], 1, n)

\* data XOR the key stream given in blocks
CtrXor(data, blocks) ==
    SubSeq([i \in 1..Len(data) |->
               Xor(data[i], blocks[((i - 1) \div 16) + 1][((i - 1) % 16) + 1])],
           1, Len(data))

\* AES-CTR of data under the key's second half, started at the tag with
\* bits 31 and 63 cleared
KeyStream(key, tag, data) ==
    CtrXor(data, CtrBlocks(ExpandKey(SubSeq(key, 17, 32)),
                           [tag EXCEPT ![9] = @ % 128, ![13] = @ % 128],
                           (Len(data) + 15) \div 16))

Sealed(key, tag, pt) == tag \o KeyStream(key, tag, pt)

\* Aead::seal(nonce, associated_data, plaintext) under key: the synthetic IV
\* followed by the encrypted plaintext
Seal(key, nonce, ad, pt) == Sealed(key, S2V(key, nonce, ad, pt), pt)

Opened(key, nonce, ad, tag, pt) ==
    IF S2V(key, nonce, ad, pt) = tag THEN Ok(pt) ELSE Err("tag mismatch")

\* Aead::open(nonce, associated_data, ciphertext) under key: decrypts with
\* the received tag, recomputes the tag and compares
Open(key, nonce, ad, ct) ==
    IF Len(ct) < AEAD_TAG_LEN THEN Err("ciphertext shorter than the tag")
    ELSE Opened(key, nonce, ad, SubSeq(ct, 1, AEAD_TAG_LEN),
                KeyStream(key, SubSeq(ct, 1, AEAD_TAG_LEN),
                          SubSeq(ct, AEAD_TAG_LEN + 1, Len(ct))))

(***************************************************************************)
(* The NTS packet codec.  oc is the build's overflow-checks setting: with  *)
(* it an integer overflow panics, without it the value wraps.              *)
(***************************************************************************)
RoundUp4(n) == n + ((4 - (n % 4)) % 4)

\* parse_decrypt_auth_ext (lines 337-363)
parse_decrypt_auth_ext(auth_dat, auth_ext_contents, key) ==
    IF Len(auth_ext_contents) < 4 THEN Err("insufficient length")
    ELSE LET nonce_len == read_u16(auth_ext_contents, 0)
             cipher_len == read_u16(auth_ext_contents, 2)
             nonce_pad_len == RoundUp4(nonce_len)
             cipher_pad_len == RoundUp4(cipher_len)
         IN  IF nonce_pad_len + cipher_pad_len + 4 > Len(auth_ext_contents)
             THEN Err("length of data exceeds wrapper")
             ELSE LET nonce == Slice(auth_ext_contents, 4, 4 + nonce_len)
                      ciphertext == Slice(auth_ext_contents, 4 + nonce_pad_len,
                                          4 + nonce_pad_len + cipher_len)
                      res == Open(key, nonce, auth_dat, ciphertext)
                  IN  IF res.st # "Ok" THEN Err("authentication failed")
                      ELSE res

\* the authenticator branch of parse_nts_packet (lines 308-320); position is
\* the cursor after reading the contents
parse_nts_authenticator(buff, key, header, auth_exts, pos, ext_len, position) ==
    IF position - 4 < ext_len
    THEN Abort("oldpos: subtraction overflow, or slice end out of range")
    ELSE LET oldpos == position - 4 - ext_len
             enc_ext_data == parse_decrypt_auth_ext(
                                 Slice(buff, 0, oldpos),
                                 ReadInto(buff, pos + 4, ext_len), key)
         IN  IF enc_ext_data.st # "Ok" THEN enc_ext_data
             ELSE LET enc_exts == parse_extensions(enc_ext_data.val)
                  IN  IF enc_exts.st # "Ok" THEN enc_exts
                      ELSE Ok([header |-> header,
                               auth_exts |-> auth_exts,
                               auth_enc_exts |-> enc_exts.val])

\* a loop that puts each extension in front of those read before it
RECURSIVE parse_nts_loop_prepend(_, _, _, _, _, _)
parse_nts_loop_prepend(buff, key, oc, header, pos, auth_exts) ==
    IF Len(buff) - pos < 4 THEN Err("never saw the authenticator")
    ELSE LET ext_type == read_u16(buff, pos)
             raw_len == read_u16(buff, pos + 2)
         IN  IF raw_len < 4 /\ oc THEN Abort("attempt to subtract with overflow")
             ELSE LET ext_len == (raw_len + 65536 - 4) % 65536
                      position == pos + 4 + ReadCount(buff, pos + 4, ext_len)
                  IN  IF type_from_wire(ext_type) = NTSAuthenticator
                      THEN parse_nts_authenticator(buff, key, header, auth_exts,
                                                   pos, ext_len, position)
                      ELSE parse_nts_loop_prepend(
                               buff, key, oc, header, position,
                               <<NtpExtension(type_from_wire(ext_type),
                                              ReadInto(buff, pos + 4, ext_len))>>
                                 \o auth_exts)

\* the loop of parse_nts_packet (lines 304-330)
RECURSIVE parse_nts_loop(_, _, _, _, _, _)
parse_nts_loop(buff, key, oc, header, pos, auth_exts) ==
    IF Len(buff) - pos < 4 THEN Err("never saw the authenticator")
    ELSE LET ext_type == read_u16(buff, pos)
             raw_len == read_u16(buff, pos + 2)
         IN  IF raw_len < 4 /\ oc THEN Abort("attempt to subtract with overflow")
             ELSE LET ext_len == (raw_len + 65536 - 4) % 65536
                      position == pos + 4 + ReadCount(buff, pos + 4, ext_len)
                  IN  IF type_from_wire(ext_type) = NTSAuthenticator
                      THEN parse_nts_authenticator(buff, key, header, auth_exts,
                                                   pos, ext_len, position)
                      ELSE parse_nts_loop(
                               buff, key, oc, header, position,
                               Append(auth_exts,
                                      NtpExtension(type_from_wire(ext_type),
                                                   ReadInto(buff, pos + 4, ext_len))))

parse_nts_packet(buff, key, oc) ==
    LET header == parse_packet_header(buff)
    IN  IF header.st # "Ok" THEN header
        ELSE parse_nts_loop(buff, key, oc, header.val, HEADER_SIZE, <<>>)

\* serialize_nts_packet; nonce is the value drawn from the random generator
serialize_nts_packet(packet, key, nonce) ==
    LET auth == serialize_extensions(packet.auth_exts)
        plaintext == serialize_extensions(packet.auth_enc_exts)
    IN  IF auth.st # "Ok" THEN auth
        ELSE IF plaintext.st # "Ok" THEN plaintext
        ELSE LET buff == serialize_header(packet.header) \o auth.val
                 ciphertext == Seal(key, nonce, buff, plaintext.val)
                 padlen == (4 - (Len(ciphertext) % 4)) % 4
                 authent_buffer == write_u16(NONCE_LEN)
                                   \o write_u16(Len(ciphertext) % 65536)
                                   \o nonce \o ciphertext \o Zeros(padlen)
                 res == serialize_extensions(
                            <<NtpExtension(NTSAuthenticator, authent_buffer)>>)
             IN  IF res.st # "Ok" THEN res
                 ELSE Ok(buff \o res.val)

(***************************************************************************)
(* The cookie codec (crate::cookie) and the key-rotation engine            *)
(* (crate::rotation), as the responder uses them.                          *)
(***************************************************************************)
KEY_ID_LEN == 8
COOKIE_NONCE_LEN == 16
COOKIE_SIZE == 104
DURATION == 3600
FORWARD_PERIODS == 2
BACKWARD_PERIODS == 24

\* make_cookie: key_id || nonce || seal(master_key, nonce, AD = key_id, c2s || s2c)
make_cookie(keys, master_key, key_id, nonce) ==
    key_id \o nonce \o Seal(master_key, nonce, key_id, keys.c2s \o keys.s2c)

get_keyid(cookie) ==
    IF Len(cookie) < KEY_ID_LEN THEN Err("None")
    ELSE Ok(Slice(cookie, 0, KEY_ID_LEN))

eat_cookie(cookie, master_key) ==
    IF Len(cookie) < KEY_ID_LEN + COOKIE_NONCE_LEN THEN Err("None")
    ELSE LET key_id == Slice(cookie, 0, KEY_ID_LEN)
             nonce == Slice(cookie, KEY_ID_LEN, KEY_ID_LEN + COOKIE_NONCE_LEN)
             ct == Slice(cookie, KEY_ID_LEN + COOKIE_NONCE_LEN, Len(cookie))
             pt == Open(master_key, nonce, key_id, ct)
         IN  IF pt.st # "Ok" \/ Len(pt.val) # 64 THEN Err("None")
             ELSE Ok([c2s |-> Slice(pt.val, 0, 32), s2c |-> Slice(pt.val, 32, 64)])

\* the id of epoch e: e as 8 big-endian bytes
KeyIdOf(e) ==
    <<0, 0, 0, 0, (e \div 16777216) % 256, (e \div 65536) % 256,
      (e \div 256) % 256, e % 256>>

\* the key of epoch e, a deterministic function of (master_key, e)
DeriveKey(master_key, e) ==
    [i \in 1..32 |-> (master_key[((i - 1) % Len(master_key)) + 1] + 31 * e + 7 * i) % 256]

\* RotatingKeys after rotate_keys() at epoch e: latest and the window's keys
RotatedKeys(master_key, e) ==
    [latest |-> KeyIdOf(e),
     keys |-> [id \in {KeyIdOf(x) : x \in (e - BACKWARD_PERIODS)..(e + FORWARD_PERIODS)} |->
                  DeriveKey(master_key,
                            CHOOSE x \in (e - BACKWARD_PERIODS)..(e + FORWARD_PERIODS) :
                                KeyIdOf(x) = id)]]

\* RotatingKeys::latest()
latest(rot) == [id |-> rot.latest, key |-> rot.keys[rot.latest]]

(***************************************************************************)
(* Time.  A SystemTime is [secs, nanos] since the Unix epoch, secs a u32   *)
(* in two base-65536 digits.                                               *)
(***************************************************************************)
UNIX_OFFSET == <<33706, 32384>>     \* 2_208_988_800
BILLION == 1000000000

\* a + b modulo 2^32 on pairs of base-65536 digits
Add32(a, b) ==
    <<(a[1] + b[1] + ((a[2] + b[2]) \div 65536)) % 65536, (a[2] + b[2]) % 65536>>

\* k binary digits of r / 10^9 (r < 10^9), most significant first, and the
\* remainder: long division, one bit a step
RECURSIVE FracDiv(_, _, _)
FracDiv(r, k, q) ==
    IF k = 0 THEN [q |-> q, r |-> r]
    ELSE IF 2 * r >= BILLION THEN FracDiv(2 * r - BILLION, k - 1, 2 * q + 1)
    ELSE FracDiv(2 * r, k - 1, 2 * q)

\* the fraction cut off instead of rounded
ts_frac_floor(nanos) ==
    LET hi == FracDiv(nanos, 16, 0)
        lo == FracDiv(hi.r, 16, 0)
    IN  <<hi.q, lo.q>>

\* ((ts_nanos * 4294967296.0) / 1.0e9).round() as u32, as two digits
ts_frac(nanos) ==
    LET hi == FracDiv(nanos, 16, 0)
        lo == FracDiv(hi.r, 16, 0)
        up == IF 2 * lo.r >= BILLION THEN 1 ELSE 0
    IN  IF hi.q = 65535 /\ lo.q + up = 65536 THEN <<65535, 65535>>
        ELSE <<hi.q + ((lo.q + up) \div 65536), (lo.q + up) % 65536>>

\* (ts_secs << 32) + ts_frac as u64
response_timestamp(time) ==
    Add32(UNIX_OFFSET, time.secs) \o ts_frac(time.nanos)

(***************************************************************************)
(* The responder (server.rs).  A Reply is a Result with the branch that    *)
(* produced it: "drop", "kod", "plain", "nts" or "abort".                  *)
(***************************************************************************)
BUF_SIZE == 1280

Reply(kind, r) ==
    [st |-> r.st, val |-> r.val,
     kind |-> IF r.st = "Ok" THEN kind ELSE IF r.st = "Err" THEN "drop" ELSE "abort"]

\* the ServerState of start_ntp_server
servstate ==
    [leap |-> "NoLeap", stratum |-> 1, version |-> VERSION, poll |-> 7,
     precision |-> -18, root_delay |-> <<0, 10>>, root_dispersion |-> <<0, 10>>,
     refid |-> <<0, 0>>, refstamp |-> <<0, 0, 0, 0>>]

\* kiss_of_death leaving the origin timestamp zero
kiss_of_death_zero_origin(query_packet) ==
    [header |->
        [leap_indicator |-> "Unknown", version |-> 4, mode |-> "Server",
         poll |-> 0, precision |-> 0, stratum |-> 0,
         root_delay |-> <<0, 0>>, root_dispersion |-> <<0, 0>>,
         reference_id |-> <<20052, 21326>>,
         reference_timestamp |-> <<0, 0, 0, 0>>,
         origin_timestamp |-> <<0, 0, 0, 0>>,
         receive_timestamp |-> <<0, 0, 0, 0>>,
         transmit_timestamp |-> <<0, 0, 0, 0>>],
     exts |-> IF has_extension(query_packet, UniqueIdentifier)
              THEN <<extract_extension(query_packet, UniqueIdentifier)>>
              ELSE <<>>]

kiss_of_death(query_packet) ==
    [header |->
        [leap_indicator |-> "Unknown", version |-> 4, mode |-> "Server",
         poll |-> 0, precision |-> 0, stratum |-> 0,
         root_delay |-> <<0, 0>>, root_dispersion |-> <<0, 0>>,
         reference_id |-> <<20052, 21326>>,     \* 0x4e54534e, NTSN
         reference_timestamp |-> <<0, 0, 0, 0>>,
         origin_timestamp |-> query_packet.header.transmit_timestamp,
         receive_timestamp |-> <<0, 0, 0, 0>>,
         transmit_timestamp |-> <<0, 0, 0, 0>>],
     exts |-> IF has_extension(query_packet, UniqueIdentifier)
              THEN <<extract_extension(query_packet, UniqueIdentifier)>>
              ELSE <<>>]

send_kiss_of_death(query_packet) ==
    serialize_ntp_packet(kiss_of_death(query_packet))

\* the loop of nts_response over query.auth_exts (lines 211-227); minted is
\* the number of cookies made so far, cookie_nonces the random draws
RECURSIVE nts_response_loop(_, _, _, _, _, _)
nts_response_loop(exts, i, resp_packet, keys, rot, cookie_nonces) ==
    IF i > Len(exts) THEN resp_packet
    ELSE IF exts[i].ext_type = UniqueIdentifier
    THEN nts_response_loop(
             exts, i + 1,
             [resp_packet EXCEPT !.auth_exts = Append(@, exts[i])],
             keys, rot, cookie_nonces)
    ELSE IF exts[i].ext_type = NTSCookiePlaceholder
            /\ Len(exts[i].contents) >= COOKIE_SIZE
    THEN nts_response_loop(
             exts, i + 1,
             [resp_packet EXCEPT !.auth_enc_exts =
                 Append(@, NtpExtension(NTSCookie,
                                        make_cookie(keys, latest(rot).key, latest(rot).id,
                                                    cookie_nonces[Len(@) + 1])))],
             keys, rot, cookie_nonces)
    ELSE nts_response_loop(exts, i + 1, resp_packet, keys, rot, cookie_nonces)

nts_response(query, header, keys, rot, cookie_nonces) ==
    LET looped == nts_response_loop(
                      query.auth_exts, 1,
                      [header |-> header, auth_exts |-> <<>>, auth_enc_exts |-> <<>>],
                      keys, rot, cookie_nonces)
    IN  [looped EXCEPT !.auth_enc_exts =
            Append(@, NtpExtension(NTSCookie,
                                   make_cookie(keys, latest(rot).key, latest(rot).id,
                                               cookie_nonces[Len(@) + 1])))]

\* process_nts sealing the reply under the key of the other direction
process_nts_seal_c2s(resp_header, keys, rot, query_raw, oc, nonce, cookie_nonces) ==
    LET query == parse_nts_packet(query_raw, keys.c2s, oc)
    IN  IF query.st = "Ok"
        THEN Reply("nts", serialize_nts_packet(
                              nts_response(query.val, resp_header, keys, rot, cookie_nonces),
                              keys.c2s, nonce))
        ELSE IF query.st = "Err"
        THEN Reply("kod", serialize_ntp_packet(
                              kiss_of_death(parse_ntp_packet(query_raw).val)))
        ELSE Reply("abort", query)

process_nts(resp_header, keys, rot, query_raw, oc, nonce, cookie_nonces) ==
    LET query == parse_nts_packet(query_raw, keys.c2s, oc)
    IN  IF query.st = "Ok"
        THEN Reply("nts", serialize_nts_packet(
                              nts_response(query.val, resp_header, keys, rot, cookie_nonces),
                              keys.s2c, nonce))
        ELSE IF query.st = "Err"
        THEN Reply("kod", serialize_ntp_packet(
                              kiss_of_death(parse_ntp_packet(query_raw).val)))
        ELSE Reply("abort", query)

\* the `?` of line 132 sending a bare kiss-of-death header instead of
\* returning the error
parse_failed_kod(err) ==
    Reply("kod", Ok(serialize_header(
                        kiss_of_death([header |-> [transmit_timestamp |-> <<0, 0, 0, 0>>],
                                       exts |-> <<>>]).header)))

\* the `?` of line 132: response() returns the parse error
parse_failed(err) == Reply("drop", err)

response(query, time, rot, state, oc, nonce, cookie_nonces) ==
    LET query_packet == parse_ntp_packet(query)
    IN  IF query_packet.st # "Ok" THEN parse_failed(query_packet)
        ELSE
        LET resp_header ==
                [leap_indicator |-> state.leap,
                 version |-> state.version,
                 mode |-> "Server",
                 poll |-> state.poll,
                 precision |-> state.precision,
                 stratum |-> state.stratum,
                 root_delay |-> state.root_delay,
                 root_dispersion |-> state.root_dispersion,
                 reference_id |-> state.refid,
                 reference_timestamp |-> state.refstamp,
                 origin_timestamp |-> query_packet.val.header.transmit_timestamp,
                 receive_timestamp |-> response_timestamp(time),
                 transmit_timestamp |-> response_timestamp(time)]
            kod == Reply("kod", send_kiss_of_death(query_packet.val))
        IN  IF query_packet.val.header.mode # "Client" THEN kod
            ELSE IF is_nts_packet(query_packet.val)
            THEN LET cookie == extract_extension(query_packet.val, NTSCookie)
                     keyid_maybe == get_keyid(cookie.contents)
                 IN  IF keyid_maybe.st # "Ok" THEN kod
                     ELSE IF keyid_maybe.val \notin DOMAIN rot.keys THEN kod
                     ELSE LET nts_keys == eat_cookie(cookie.contents,
                                                     rot.keys[keyid_maybe.val])
                          IN  IF nts_keys.st # "Ok" THEN kod
                              ELSE process_nts(resp_header, nts_keys.val, rot, query,
                                               oc, nonce, cookie_nonces)
            ELSE Reply("plain", Ok(serialize_header(resp_header)))

(***************************************************************************)
(* The NTS-KE record codec (nts_ke/protocol.rs).  A record is              *)
(* [critical, record_type, contents]; on the wire byte 0 is                *)
(* (critical << 7) | (type_hi & 0x7F), byte 1 is type_lo, bytes 2-3 the    *)
(* length and the contents follow.                                         *)
(***************************************************************************)
NtsKeTypes ==
    <<"EndOfMessage", "NextProtocolNegotiation", "Error", "Warning",
      "AEADAlgorithmNegotiation", "NewCookie", "ServerNegotiation",
      "PortNegotiation">>
KeCode(record_type) == CHOOSE c \in 0..7 : NtsKeTypes[c + 1] = record_type
NtsKeRecord(critical, record_type, contents) ==
    [critical |-> critical, record_type |-> record_type, contents |-> contents]
NoRecord == NtsKeRecord(FALSE, "None", <<>>)

\* a record of wire code c, recognized or not
serialize_code(critical, c, contents) ==
    <<(IF critical THEN 128 ELSE 0) + ((c \div 256) % 128), c % 256>>
        \o write_u16(Len(contents)) \o contents
serialize_record(rec) ==
    serialize_code(rec.critical, KeCode(rec.record_type), rec.contents)

\* Ok((Some(rec), len)), Ok((None, len)), Err(TooShort(n)) with n the
\* length that buff must reach, or another error
deserialize_record(buff) ==
    IF Len(buff) < 4 THEN [st |-> "TooShort", n |-> 4, rec |-> NoRecord]
    ELSE LET critical == buff[1] >= 128
             c == (buff[1] % 128) * 256 + buff[2]
             length == read_u16(buff, 2)
         IN  IF Len(buff) < 4 + length
             THEN [st |-> "TooShort", n |-> 4 + length, rec |-> NoRecord]
             ELSE IF c <= 7
             THEN [st |-> "Some", n |-> 4 + length,
                   rec |-> NtsKeRecord(critical, NtsKeTypes[c + 1],
                                       Slice(buff, 4, 4 + length))]
             ELSE IF critical
             THEN [st |-> "Err", n |-> 0, rec |-> NoRecord]
             ELSE [st |-> "None", n |-> 4 + length, rec |-> NoRecord]

\* extract_protos and extract_aead: the contents as a sequence of u16
extract_u16s(contents) ==
    [i \in 1..(Len(contents) \div 2) |-> read_u16(contents, 2 * (i - 1))]
extract_protos(rec) == Ok(extract_u16s(rec.contents))
extract_aead(rec) == Ok(extract_u16s(rec.contents))
extract_port(rec) ==
    IF Len(rec.contents) < 2 THEN Err("Io") ELSE Ok(read_u16(rec.contents, 0))

(***************************************************************************)
(* The NTS-KE client (nts_ke/client.rs).                                   *)
(***************************************************************************)
DEFAULT_NTP_PORT == 123
DEFAULT_SCHEME == 0

\* the result of process_record: the state as it leaves it and Ok(()) or
\* the error
Processed(st, state) == [st |-> st, state |-> state]

process_record(rec, state) ==
    IF state.finished THEN Processed("RecordAfterEnd", state)
    ELSE CASE rec.record_type = "EndOfMessage" ->
                Processed("Ok", [state EXCEPT !.finished = TRUE])
           [] rec.record_type = "NextProtocolNegotiation" ->
                Processed("Ok", [state EXCEPT !.next_protocols = extract_protos(rec).val])
           [] rec.record_type = "Error" -> Processed("ErrorRecord", state)
           [] rec.record_type = "Warning" -> Processed("Ok", state)
           [] rec.record_type = "AEADAlgorithmNegotiation" ->
                LET schemes == extract_aead(rec).val
                IN  \* schemes[0] of an empty vector panics
                    IF Len(schemes) = 0 THEN Processed("Abort", state)
                    ELSE IF Len(schemes) # 1
                    THEN Processed("InvalidRecord",
                                   [state EXCEPT !.aead_scheme = schemes[1]])
                    ELSE Processed("Ok", [state EXCEPT !.aead_scheme = schemes[1]])
           [] rec.record_type = "NewCookie" ->
                Processed("Ok", [state EXCEPT !.cookies = Append(@, rec.contents)])
           [] rec.record_type = "ServerNegotiation" -> Processed("Ok", state)
           [] rec.record_type = "PortNegotiation" ->
                IF extract_port(rec).st # "Ok" THEN Processed("Io", state)
                ELSE Processed("Ok", [state EXCEPT !.next_port = extract_port(rec).val])

(***************************************************************************)
(* State.                                                                  *)
(*   overflow_checks  the build: TRUE when integer overflow panics (debug),*)
(*                    FALSE when it wraps (release)                        *)
(*   c_*              a codec exercise, as the tests of protocol.rs run it:*)
(*                    an input value, its wire form (perhaps with one bit  *)
(*                    inverted in transit) and the result of parsing that  *)
(*   key_rot          the RotatingKeys behind the RwLock                   *)
(*   rotations        the rotate_keys() calls that have succeeded          *)
(*   rotator          periodic_rotate has started the rotation thread      *)
(*   bound            the UDP socket is bound                              *)
(*   s_pc             start_ntp_server's position: "rotate" (calling       *)
(*                    rotate_keys in the start-up loop), "sleep" (after a  *)
(*                    failed call), "spawn" (periodic_rotate to call),     *)
(*                    "bind", "recv" (in recv_from), "respond" (a datagram *)
(*                    received, response() to run), "point" (response() in *)
(*                    the read() of line 157), "latest" (nts_response in   *)
(*                    a read() of line 217 or 229), "latest_held" (that    *)
(*                    guard alive), "drop" (the arm of line 157 at its     *)
(*                    end), "reply" (response() has returned, the match of *)
(*                    line 110 to run), "panicked" or "exited"             *)
(*   net              the datagram on its way to the socket, if any        *)
(*   client           what the sender of that datagram built               *)
(*   query, ts        the datagram received and the time of its receipt    *)
(*   result, sent     response()'s result for it and what send_to sent     *)
(*   ke_conn          the NTS-KE server's response: its records, their     *)
(*                    bytes and how many of them read() has delivered      *)
(*   ke_buf           run_nts_ke_client's curr and readptr and the length  *)
(*                    of its buf; buf holds the readptr bytes delivered so *)
(*                    far and the zeros of vec![0; 4] and resize behind    *)
(*                    them, so its bytes are not kept a second time        *)
(*   ke_state         its ClientState                                      *)
(*   ke_pc            its position: "idle", "read" (in tls_stream.read),   *)
(*                    "record" (in the inner loop), "shutdown" (the outer  *)
(*                    loop left), "done" or "panicked"                     *)
(*   ke_ret           what it returned                                     *)
(*   policy           how the RwLock of start_ntp_server line 77 treats a  *)
(*                    read() made while a writer waits: "readers_first"    *)
(*                    grants it, "writers_first" blocks it (std leaves the *)
(*                    policy to the platform)                              *)
(*   lock             that RwLock: the read guards alive, whether the      *)
(*                    write guard is alive, whether write() is waiting     *)
(*   h_todo           the calls of latest() that nts_response has yet to   *)
(*                    make                                                 *)
(*   w_pc             the rotation thread: "sleep", "write" (blocked in    *)
(*                    write()), "rotating" (holding the write guard) or    *)
(*                    "rotated" (rotate_keys done, the guard to drop)      *)
(***************************************************************************)
VARIABLES overflow_checks, c_stage, c_in, c_wire, c_flip, c_out,
          key_rot, rotations, rotator, bound,
          s_pc, net, client, query, ts, result, sent,
          ke_conn, ke_buf, ke_state, ke_pc, ke_ret,
          policy, lock, h_todo, w_pc

lock_vars == <<policy, lock, h_todo, w_pc>>

ke_vars == <<ke_conn, ke_buf, ke_state, ke_pc, ke_ret>>

codec_vars == <<c_stage, c_in, c_wire, c_flip, c_out>>
boot_vars == <<rotations, rotator, bound>>
server_vars == <<key_rot, rotations, rotator, bound,
                 s_pc, net, client, query, ts, result, sent>>
vars == <<overflow_checks, c_stage, c_in, c_wire, c_flip, c_out,
          key_rot, rotations, rotator, bound,
          s_pc, net, client, query, ts, result, sent,
          ke_conn, ke_buf, ke_state, ke_pc, ke_ret,
          policy, lock, h_todo, w_pc>>

NoFlip == [pos |-> 0, bit |-> 0]
NoResult == Err("not run")

(***************************************************************************)
(* Inputs of the codec exercises.                                          *)
(***************************************************************************)
\* extensions in a list given to serialize_extensions
MaxExts == 2
\* 4-byte words in an extension's contents
MaxWords == 1
\* extensions in each list of an NTS packet
MaxNtsExts == 2

\* contents of w words: distinct bytes, so that order and offsets show
Contents(w, seed) == [i \in 1..(4 * w) |-> (seed + 16 * i) % 256]

Key0 == Fill(32, 0)
Key1 == [i \in 1..32 |-> (7 * i + 1) % 256]
Nonce0 == Fill(NONCE_LEN, 0)
Nonce1 == [i \in 1..NONCE_LEN |-> (200 + 3 * i) % 256]
Nonces == {Nonce0, Nonce1}
\* the nonce the responder's random generator gives
ServerNonces == {Nonce1}

\* the header of tests::test_nts_parse
TestHeader ==
    [leap_indicator |-> "NoLeap", version |-> 4, mode |-> "Client",
     stratum |-> 1, poll |-> 0, precision |-> 0,
     root_delay |-> <<0, 0>>, root_dispersion |-> <<0, 0>>,
     reference_id |-> <<0, 0>>,
     reference_timestamp |-> <<0, 0, 0, 0>>,
     origin_timestamp |-> <<0, 0, 0, 0>>,
     receive_timestamp |-> <<0, 0, 0, 0>>,
     transmit_timestamp |-> <<0, 0, 0, 0>>]

\* a header with every field non-zero and every byte of a field different
BusyHeader ==
    [leap_indicator |-> "NoLeap", version |-> 4, mode |-> "Client",
     stratum |-> 201, poll |-> 7, precision |-> -18,
     root_delay |-> <<258, 772>>, root_dispersion |-> <<65535, 1>>,
     reference_id |-> <<20052, 21326>>,
     reference_timestamp |-> <<1, 2, 3, 4>>,
     origin_timestamp |-> <<4660, 22136, 39612, 57072>>,
     receive_timestamp |-> <<65280, 255, 32768, 128>>,
     transmit_timestamp |-> <<43981, 61185, 4386, 13124>>]

HeaderInputs ==
    {[h EXCEPT !.leap_indicator = l, !.version = v, !.mode = m] :
        h \in {TestHeader, BusyHeader}, l \in LeapStates, v \in 0..7,
        m \in PacketModes}

\* the codes type_from_wire maps to a named type
RecognizedCodes == {EXT_TYPE_UNIQUE_IDENTIFIER, EXT_TYPE_NTS_COOKIE,
                    EXT_TYPE_NTS_COOKIE_PLACEHOLDER, EXT_TYPE_NTS_AUTHENTICATOR}
Canonical(t) == t.tag = "Unknown" => t.y \notin RecognizedCodes
CanonicalList(exts) == \A i \in 1..Len(exts) : Canonical(exts[i].ext_type)

ExtTypeInputs == {UniqueIdentifier, NTSCookie, NTSCookiePlaceholder,
                  NTSAuthenticator, Unknown(30583), Unknown(260), Unknown(1028)}

\* an extension of each type, empty and of the longest contents
ExtInputs(types) ==
    {NtpExtension(t, Contents(w, wire_type(t))) : t \in types, w \in {0, MaxWords}}

RECURSIVE ListsUpTo(_, _)
ListsUpTo(S, n) ==
    IF n = 0 THEN {<<>>}
    ELSE ListsUpTo(S, n - 1)
         \cup {Append(l, x) : l \in {m \in ListsUpTo(S, n - 1) : Len(m) = n - 1},
                              x \in S}

CodecInput(kind, h, a, e, k) ==
    [kind |-> kind, header |-> h, auth_exts |-> a, auth_enc_exts |-> e, key |-> k]

\* the extensions of the lists of an NTS packet: in each list two types
\* that differ in length as well, so that the order of a list shows, and
\* Unknown codes that type_from_wire reads as a named type (260 and 1028
\* as UniqueIdentifier and NTSAuthenticator, 516 as NTSCookie)
NtsAuthInputs ==
    {NtpExtension(UniqueIdentifier, Contents(MaxWords, 1)),
     NtpExtension(NTSCookie, Contents(0, 2)),
     NtpExtension(Unknown(260), Contents(MaxWords, 3)),
     NtpExtension(Unknown(1028), Contents(0, 4))}
NtsEncInputs ==
    {NtpExtension(NTSCookiePlaceholder, Contents(MaxWords, 5)),
     NtpExtension(NTSAuthenticator, Contents(0, 6)),
     NtpExtension(Unknown(30583), Contents(MaxWords, 7)),
     NtpExtension(Unknown(516), Contents(0, 8))}
\* every version and every mode that has a number
NtsHeaderInputs ==
    {[BusyHeader EXCEPT !.version = v, !.mode = m] :
        v \in 0..7, m \in PacketModes \ {"Invalid"}}
\* the lists the headers are tried with
TwoAuthExts ==
    <<NtpExtension(UniqueIdentifier, Contents(MaxWords, 1)),
      NtpExtension(NTSCookie, Contents(0, 2))>>
TwoEncExts ==
    <<NtpExtension(NTSCookiePlaceholder, Contents(MaxWords, 5)),
      NtpExtension(Unknown(30583), Contents(MaxWords, 7))>>

CodecInputs ==
    {CodecInput("header", h, <<>>, <<>>, Key0) : h \in HeaderInputs}
    \cup {CodecInput("exts", TestHeader, l, <<>>, Key0) :
            l \in ListsUpTo(ExtInputs(ExtTypeInputs), MaxExts)}
    \cup {CodecInput("nts", BusyHeader, a, e, Key1) :
            a \in ListsUpTo(NtsAuthInputs, MaxNtsExts),
            e \in ListsUpTo(NtsEncInputs, MaxNtsExts)}
    \cup {CodecInput("nts", h, TwoAuthExts, TwoEncExts, k) :
            h \in NtsHeaderInputs, k \in {Key0, Key1}}

(***************************************************************************)
(* Inputs of the responder: the datagrams senders put on the network.      *)
(***************************************************************************)
\* cookie placeholders in each list of a request
MaxPlaceholders == 1
\* successful rotate_keys() calls, the one at start-up included
MaxRotations == 2

MasterKey == Fill(32, 0)
StartTime == [secs |-> <<23956, 27520>>, nanos |-> 0]
\* the clock readings of the responder's runs (the runs of SpecTime draw
\* theirs from ReceiveTimes)
Times == {StartTime}

\* epoch(t) = floor(t_unix / duration)
EpochOf(time) == (time.secs[1] * 65536 + time.secs[2]) \div DURATION

\* the keys an NTS-KE session gave the client
ClientKeys == [c2s |-> [i \in 1..32 |-> (3 * i + 5) % 256],
               s2c |-> [i \in 1..32 |-> (5 * i + 9) % 256]]
OtherKeys == [c2s |-> Key1, s2c |-> Key0]
CookieNonce(seed, j) == Fill(COOKIE_NONCE_LEN, (seed + j) % 256)
CookieNonces(seed) == [j \in 1..(2 * MaxPlaceholders + 2) |-> CookieNonce(seed, j)]

RequestHeader ==
    [TestHeader EXCEPT !.stratum = 0,
                       !.transmit_timestamp = <<4660, 22136, 39612, 57072>>]

UidExt == NtpExtension(UniqueIdentifier, Fill(4, 17))
Placeholder(n) == NtpExtension(NTSCookiePlaceholder, Fill(n, 254))
\* lists of placeholders of the size of a cookie, the last one possibly
\* too short for a cookie
PlaceholderLists ==
    {[i \in 1..n |-> Placeholder(COOKIE_SIZE)] : n \in 0..MaxPlaceholders}
    \cup {[i \in 1..n |-> Placeholder(IF i < n THEN COOKIE_SIZE ELSE COOKIE_SIZE - 4)] :
             n \in 1..MaxPlaceholders}

\* the cookie a request carries
CookieKinds == {"latest", "previous", "short", "unknown_id", "bad_seal"}
RequestCookie(kind, e) ==
    CASE kind = "latest" ->
           make_cookie(ClientKeys, DeriveKey(MasterKey, e), KeyIdOf(e), CookieNonce(0, 0))
      [] kind = "previous" ->
           make_cookie(ClientKeys, DeriveKey(MasterKey, e - 1), KeyIdOf(e - 1),
                       CookieNonce(0, 0))
      [] kind = "short" -> Fill(4, 1)
      [] kind = "unknown_id" ->
           make_cookie(ClientKeys, DeriveKey(MasterKey, e - BACKWARD_PERIODS - 1),
                       KeyIdOf(e - BACKWARD_PERIODS - 1), CookieNonce(0, 0))
      [] kind = "bad_seal" ->
           make_cookie(ClientKeys, DeriveKey(Key1, e), KeyIdOf(e), CookieNonce(0, 0))

\* what a sender built: the lists of its NTS packet, the kind of its cookie,
\* whether its authenticator is under c2s, and the bit inverted in transit
Sender(kind, a, e, cookie, auth_ok) ==
    [kind |-> kind, auth_exts |-> a, auth_enc_exts |-> e, cookie |-> cookie,
     auth_ok |-> auth_ok, flip |-> NoFlip]
NoSender == Sender("none", <<>>, <<>>, "none", FALSE)

BasicExts(c) ==
    <<UidExt, NtpExtension(NTSCookie, RequestCookie(c, EpochOf(StartTime)))>>

\* two UniqueIdentifiers of different contents among extensions of other types
Uid2Ext == NtpExtension(UniqueIdentifier, Fill(8, 34))
MixedExts ==
    <<Uid2Ext, NtpExtension(NTSCookie, RequestCookie("latest", EpochOf(StartTime))),
      NtpExtension(Unknown(30583), Fill(4, 51)), UidExt, Placeholder(COOKIE_SIZE)>>

NtsSenders ==
    {Sender("nts", BasicExts("latest") \o pa, pe, "latest", TRUE) :
        pa \in PlaceholderLists, pe \in PlaceholderLists}
    \cup {Sender("nts", BasicExts(c), <<>>, c, TRUE) : c \in CookieKinds}
    \cup {Sender("nts", BasicExts("latest"), <<>>, "latest", FALSE)}
    \cup {Sender("nts", MixedExts, <<>>, "latest", TRUE)}
    \* a second UniqueIdentifier in the encrypted list
    \cup {Sender("nts", BasicExts("latest"), <<Uid2Ext>>, "latest", TRUE)}

NtsDatagram(sender) ==
    serialize_nts_packet(
        [header |-> RequestHeader, auth_exts |-> sender.auth_exts,
         auth_enc_exts |-> sender.auth_enc_exts],
        IF sender.auth_ok THEN ClientKeys.c2s ELSE OtherKeys.c2s, Nonce0)

\* a request that an NTS client builds by hand with a 16-byte nonce, where
\* serialize_nts_packet uses NONCE_LEN bytes
ShortNonce == [i \in 1..16 |-> (90 + i) % 256]
ShortNonceDatagram ==
    LET ad == serialize_header(RequestHeader)
                \o serialize_extensions(BasicExts("latest")).val
    IN  ad \o write_u16(EXT_TYPE_NTS_AUTHENTICATOR)
           \o write_u16(4 + 4 + Len(ShortNonce) + AEAD_TAG_LEN)
           \o write_u16(Len(ShortNonce)) \o write_u16(AEAD_TAG_LEN)
           \o ShortNonce \o Seal(ClientKeys.c2s, ShortNonce, ad, <<>>)

\* a request whose only UniqueIdentifier comes after the authenticator:
\* the cookie alone is in the associated data
UidBehindSender ==
    Sender("nts_uid_behind",
           <<NtpExtension(NTSCookie, RequestCookie("latest", EpochOf(StartTime)))>>,
           <<>>, "latest", TRUE)
UidBehindDatagram ==
    NtsDatagram(UidBehindSender).val \o serialize_extensions(<<UidExt>>).val

NtsRequests ==
    {[sender |-> x, data |-> NtsDatagram(x).val] : x \in NtsSenders}
    \cup {[sender |-> Sender("nts_short_nonce", BasicExts("latest"), <<>>,
                              "latest", TRUE),
           data |-> ShortNonceDatagram]}
    \cup {[sender |-> UidBehindSender, data |-> UidBehindDatagram]}

HeaderOf(mode) == serialize_header([RequestHeader EXCEPT !.mode = mode])
UidBytes == serialize_extensions(<<UidExt>>).val

RawDatagrams ==
    {<<>>, SubSeq(HeaderOf("Client"), 1, 47)}
    \cup {HeaderOf(m) : m \in PacketModes}
    \cup {HeaderOf(m) \o UidBytes : m \in PacketModes}
    \* an extension whose length is not a multiple of 4, or is below 4
    \cup {HeaderOf(m) \o <<0, 0, 0, 2>> : m \in {"Client", "Server"}}
    \cup {HeaderOf(m) \o UidBytes \o <<0, 0, 0, 0>> : m \in {"Client", "Server"}}
    \* a tail of fewer than 4 bytes
    \cup {HeaderOf(m) \o <<9, 9, 9>> : m \in {"Client", "Server"}}
    \* a UniqueIdentifier that declares 32 bytes of contents and carries 4
    \cup {HeaderOf(m) \o write_u16(EXT_TYPE_UNIQUE_IDENTIFIER) \o write_u16(36)
              \o Fill(4, 17) : m \in {"Client", "Server"}}
    \* a cookie and an authenticator, and no UniqueIdentifier
    \cup {HeaderOf("Client")
              \o serialize_extensions(
                     <<NtpExtension(NTSCookie, Fill(8, 1)),
                       NtpExtension(NTSAuthenticator, Fill(8, 2))>>).val}

\* where a datagram built by sender is tampered with: the first byte of the
\* header, the first byte of the cookie, the high byte of the authenticator's
\* length and the last byte of the ciphertext (1-based indices)
AuthenticatorOffset(sender) ==
    HEADER_SIZE + Len(serialize_extensions(sender.auth_exts).val)
TamperPositions(sender, data) ==
    {1, HEADER_SIZE + Len(UidBytes) + 4 + 1, AuthenticatorOffset(sender) + 3, Len(data)}
TamperBits == {0, 7}

NoDatagram == [full |-> FALSE, data |-> <<>>]
Datagram(d) == [full |-> TRUE, data |-> d]
NoReply == [st |-> "Err", val |-> "not run", kind |-> "none"]

IdleCodec ==
    /\ c_stage = "idle"
    /\ c_in = CodecInput("none", TestHeader, <<>>, <<>>, Key0)
    /\ c_wire = NoResult
    /\ c_flip = NoFlip
    /\ c_out = NoResult

ConfiguredHost == "time.example"
\* the ClientState of client.rs lines 185-193 (the keys left out)
InitialClientState ==
    [finished |-> FALSE, cookies |-> <<>>, next_protocols |-> <<>>,
     next_server |-> ConfiguredHost, next_port |-> DEFAULT_NTP_PORT,
     aead_scheme |-> DEFAULT_SCHEME]
Connection(resp, stream) == [resp |-> resp, stream |-> stream, off |-> 0]

\* no key exchange is running
\* the key lock before any thread has asked for it
Unlocked == [readers |-> 0, writer |-> FALSE, waiting |-> FALSE]

IdleLock ==
    /\ policy = "readers_first"
    /\ lock = Unlocked
    /\ h_todo = 0
    /\ w_pc = "sleep"

IdleKe ==
    /\ ke_conn = Connection(<<>>, <<>>)
    /\ ke_buf = [len |-> 0, curr |-> 0, readptr |-> 0]
    /\ ke_state = InitialClientState
    /\ ke_pc = "idle"
    /\ ke_ret = NoResult

\* start_ntp_server has initialised its keys and bound its socket
ServerReady ==
    /\ key_rot = RotatedKeys(MasterKey, EpochOf(StartTime))
    /\ rotations = 1 /\ rotator = TRUE /\ bound = TRUE
    /\ s_pc = "recv"
    /\ net = NoDatagram
    /\ client = NoSender
    /\ query = <<>>
    /\ ts = StartTime
    /\ result = NoReply
    /\ sent = NoDatagram

(***************************************************************************)
(* The codec exercises: serialize, then parse.                             *)
(***************************************************************************)
InitCodec ==
    /\ overflow_checks \in BOOLEAN
    /\ IdleKe
    /\ IdleLock
    /\ c_stage = "input"
    /\ c_in \in CodecInputs
    /\ c_wire = NoResult
    /\ c_flip = NoFlip
    /\ c_out = NoResult
    /\ ServerReady

SerializeHeader ==
    /\ c_stage = "input" /\ c_in.kind = "header"
    /\ c_wire' = Ok(serialize_header(c_in.header))
    /\ c_stage' = "wire"
    /\ UNCHANGED <<ke_vars, lock_vars, server_vars, overflow_checks, c_in, c_flip, c_out>>

ParseHeader ==
    /\ c_stage = "wire" /\ c_in.kind = "header" /\ c_wire.st = "Ok"
    /\ c_out' = parse_packet_header(c_wire.val)
    /\ c_stage' = "parsed"
    /\ UNCHANGED <<ke_vars, lock_vars, server_vars, overflow_checks, c_in, c_wire, c_flip>>

SerializeExts ==
    /\ c_stage = "input" /\ c_in.kind = "exts"
    /\ c_wire' = serialize_extensions(c_in.auth_exts)
    /\ c_stage' = "wire"
    /\ UNCHANGED <<ke_vars, lock_vars, server_vars, overflow_checks, c_in, c_flip, c_out>>

ParseExts ==
    /\ c_stage = "wire" /\ c_in.kind = "exts" /\ c_wire.st = "Ok"
    /\ c_out' = parse_extensions(c_wire.val)
    /\ c_stage' = "parsed"
    /\ UNCHANGED <<ke_vars, lock_vars, server_vars, overflow_checks, c_in, c_wire, c_flip>>

SerializeNts ==
    /\ c_stage = "input" /\ c_in.kind = "nts"
    /\ \E nonce \in Nonces :
          c_wire' = serialize_nts_packet(
                        [header |-> c_in.header, auth_exts |-> c_in.auth_exts,
                         auth_enc_exts |-> c_in.auth_enc_exts], c_in.key, nonce)
    /\ c_stage' = "wire"
    /\ UNCHANGED <<ke_vars, lock_vars, server_vars, overflow_checks, c_in, c_flip, c_out>>

ParseNts ==
    /\ c_stage \in {"wire", "tampered"} /\ c_in.kind = "nts" /\ c_wire.st = "Ok"
    /\ c_out' = parse_nts_packet(c_wire.val, c_in.key, overflow_checks)
    /\ c_stage' = "parsed"
    /\ UNCHANGED <<ke_vars, lock_vars, server_vars, overflow_checks, c_in, c_wire, c_flip>>

NextCodec ==
    \/ SerializeHeader \/ ParseHeader
    \/ SerializeExts \/ ParseExts
    \/ SerializeNts \/ ParseNts

SpecCodec == InitCodec /\ [][NextCodec]_vars

(***************************************************************************)
(* Tampering: one bit of a serialized NTS packet is inverted before it is  *)
(* parsed.                                                                 *)
(***************************************************************************)
Ext(t, w) == NtpExtension(t, Contents(w, wire_type(t)))

TamperInputs ==
    {CodecInput("nts", h, a, e, Key1) :
        h \in {TestHeader},
        a \in {<<>>, <<Ext(UniqueIdentifier, 1), Ext(NTSCookie, 1)>>},
        e \in {<<>>, <<Ext(NTSCookiePlaceholder, 1)>>}}

InitTamper ==
    /\ overflow_checks \in BOOLEAN
    /\ IdleKe
    /\ IdleLock
    /\ c_stage = "input"
    /\ c_in \in TamperInputs
    /\ c_wire = NoResult
    /\ c_flip = NoFlip
    /\ c_out = NoResult
    /\ ServerReady

FlipBit ==
    /\ c_stage = "wire" /\ c_in.kind = "nts" /\ c_wire.st = "Ok"
    /\ \E i \in 1..Len(c_wire.val), k \in 0..7 :
          /\ c_wire' = Ok([c_wire.val EXCEPT ![i] = FlipBitOf(c_wire.val[i], k)])
          /\ c_flip' = [pos |-> i, bit |-> k]
    /\ c_stage' = "tampered"
    /\ UNCHANGED <<ke_vars, lock_vars, server_vars, overflow_checks, c_in, c_out>>

NextTamper == SerializeNts \/ FlipBit \/ ParseNts

SpecTamper == InitTamper /\ [][NextTamper]_vars

(***************************************************************************)
(* The responder's receive loop and the network in front of it, and the    *)
(* rotation thread next to it.  response() is taken apart at the calls of  *)
(* cookie_keys.read(): line 157 (the guard `point`, alive to the end of    *)
(* the Some(keyid) arm, line 174) and lines 217 and 229 of nts_response    *)
(* (a guard that lives for the statement).  The rotation thread            *)
(* (rotation.rs) takes the write side once per tick.                       *)
(***************************************************************************)
LockPolicies == {"readers_first", "writers_first"}

\* lines 132-156: whether response() reaches cookie_keys.read() of line 157
reaches_point(query_raw) ==
    LET query_packet == parse_ntp_packet(query_raw)
    IN  /\ query_packet.st = "Ok"
        /\ query_packet.val.header.mode = "Client"
        /\ is_nts_packet(query_packet.val)
        /\ get_keyid(extract_extension(query_packet.val, NTSCookie).contents).st
              = "Ok"

\* lines 158-169, 190-193 and 211-229, run under `point`: how often
\* nts_response calls cookie_keys.read().unwrap().latest(), once for every
\* placeholder of at least COOKIE_SIZE bytes and once for the free cookie;
\* never when the request is answered with a kiss of death
latest_calls(query_raw, rot, oc) ==
    LET cookie == extract_extension(parse_ntp_packet(query_raw).val, NTSCookie)
        keyid == get_keyid(cookie.contents).val
    IN  IF keyid \notin DOMAIN rot.keys THEN 0
        ELSE LET nts_keys == eat_cookie(cookie.contents, rot.keys[keyid])
             IN  IF nts_keys.st # "Ok" THEN 0
                 ELSE LET packet == parse_nts_packet(query_raw,
                                                     nts_keys.val.c2s, oc)
                      IN  IF packet.st # "Ok" THEN 0
                          ELSE 1 + Cardinality(
                                 {i \in 1..Len(packet.val.auth_exts) :
                                    /\ packet.val.auth_exts[i].ext_type
                                          = NTSCookiePlaceholder
                                    /\ Len(packet.val.auth_exts[i].contents)
                                          >= COOKIE_SIZE})

\* RwLock::read() returns: no write guard is alive, and under
\* "writers_first" no write() is waiting
CanRead == ~lock.writer /\ (policy = "writers_first" => ~lock.waiting)

\* RwLock::write() returns: no guard is alive
CanWrite == ~lock.writer /\ lock.readers = 0

\* start_ntp_server has built key_rot (lines 56-65) and enters the loop
\* that calls rotate_keys
Init ==
    /\ overflow_checks \in BOOLEAN
    /\ IdleKe
    /\ IdleCodec
    /\ policy \in LockPolicies
    /\ lock = Unlocked
    /\ h_todo = 0
    /\ w_pc = "sleep"
    /\ key_rot = [latest |-> Zeros(KEY_ID_LEN), keys |-> <<>>]
    /\ rotations = 0 /\ rotator = FALSE /\ bound = FALSE
    /\ s_pc = "rotate"
    /\ net = NoDatagram
    /\ client = NoSender
    /\ query = <<>>
    /\ ts = StartTime
    /\ result = NoReply
    /\ sent = NoDatagram

\* what a successful rotate_keys() leaves in the RotatingKeys: the window
\* of the epoch that the n-th rotation runs in
rotate_keys(rot, n) == RotatedKeys(MasterKey, EpochOf(StartTime) + n)

\* the start-up loop: Ok(()) => break
RotateKeysOk ==
    /\ s_pc = "rotate"
    /\ key_rot' = rotate_keys(key_rot, rotations)
    /\ rotations' = rotations + 1
    /\ s_pc' = "spawn"
    /\ UNCHANGED <<ke_vars, lock_vars, codec_vars, overflow_checks, rotator, bound,
                   net, client, query, ts, result, sent>>

\* the start-up loop with its arms exchanged: Err(e) => break
RotateKeysFailed_break ==
    /\ s_pc = "rotate"
    /\ s_pc' = "spawn"
    /\ UNCHANGED <<ke_vars, lock_vars, codec_vars, overflow_checks, key_rot, boot_vars,
                   net, client, query, ts, result, sent>>

\* the start-up loop: Err(e) => log and sleep 10 seconds
RotateKeysFailed ==
    /\ s_pc = "rotate"
    /\ s_pc' = "sleep"
    /\ UNCHANGED <<ke_vars, lock_vars, codec_vars, overflow_checks, key_rot, boot_vars,
                   net, client, query, ts, result, sent>>

\* the sleep is over: the loop calls rotate_keys again
Sleep ==
    /\ s_pc = "sleep"
    /\ s_pc' = "rotate"
    /\ UNCHANGED <<ke_vars, lock_vars, codec_vars, overflow_checks, key_rot, boot_vars,
                   net, client, query, ts, result, sent>>

\* rotation::periodic_rotate(keys.clone()) starts the rotation thread
PeriodicRotate ==
    /\ s_pc = "spawn"
    /\ rotator' = TRUE
    /\ s_pc' = "bind"
    /\ UNCHANGED <<ke_vars, lock_vars, codec_vars, overflow_checks, key_rot, rotations, bound,
                   net, client, query, ts, result, sent>>

\* the address is resolved and the socket bound; a failure of either ends
\* start_ntp_server (unwrap, ?)
Bind ==
    /\ s_pc = "bind"
    /\ \/ bound' = TRUE /\ s_pc' = "recv"
       \/ bound' = FALSE /\ s_pc' \in {"exited", "panicked"}
    /\ UNCHANGED <<ke_vars, lock_vars, codec_vars, overflow_checks, key_rot, rotations, rotator,
                   net, client, query, ts, result, sent>>

\* the rotation thread wakes up and calls write()
RotatorTick ==
    /\ rotator /\ w_pc = "sleep" /\ rotations < MaxRotations
    /\ lock' = [lock EXCEPT !.waiting = TRUE]
    /\ w_pc' = "write"
    /\ UNCHANGED <<ke_vars, codec_vars, overflow_checks, server_vars, policy,
                   h_todo>>

\* write() returns the write guard
RotatorWrite ==
    /\ w_pc = "write"
    /\ CanWrite
    /\ lock' = [lock EXCEPT !.writer = TRUE, !.waiting = FALSE]
    /\ w_pc' = "rotating"
    /\ UNCHANGED <<ke_vars, codec_vars, overflow_checks, server_vars, policy,
                   h_todo>>

\* rotate_keys() under the write guard
RotatorRotate ==
    /\ w_pc = "rotating"
    /\ key_rot' = rotate_keys(key_rot, rotations)
    /\ rotations' = rotations + 1
    /\ w_pc' = "rotated"
    /\ UNCHANGED <<ke_vars, codec_vars, overflow_checks, rotator, bound,
                   s_pc, net, client, query, ts, result, sent, policy, lock,
                   h_todo>>

\* the write guard is dropped and the thread sleeps to its next tick
RotatorDrop ==
    /\ w_pc = "rotated"
    /\ lock' = [lock EXCEPT !.writer = FALSE]
    /\ w_pc' = "sleep"
    /\ UNCHANGED <<ke_vars, codec_vars, overflow_checks, server_vars, policy,
                   h_todo>>

\* a sender puts a datagram on the network
SendRaw ==
    /\ bound /\ s_pc = "recv" /\ ~net.full
    /\ \E d \in RawDatagrams : net' = Datagram(d)
    /\ client' = Sender("raw", <<>>, <<>>, "none", FALSE)
    /\ query' = <<>> /\ result' = NoReply /\ sent' = NoDatagram
    /\ UNCHANGED <<ke_vars, lock_vars, codec_vars, overflow_checks, key_rot, boot_vars, s_pc, ts>>

\* an NTS client sends a request built with serialize_nts_packet
SendNts ==
    /\ bound /\ s_pc = "recv" /\ ~net.full
    /\ \E r \in NtsRequests :
          /\ net' = Datagram(r.data)
          /\ client' = r.sender
    /\ query' = <<>> /\ result' = NoReply /\ sent' = NoDatagram
    /\ UNCHANGED <<ke_vars, lock_vars, codec_vars, overflow_checks, key_rot, boot_vars, s_pc, ts>>

\* one bit of a request that carries no placeholder is inverted on its way
Tamper ==
    /\ net.full /\ client.kind = "nts" /\ client.flip = NoFlip
    /\ client.cookie = "latest" /\ client.auth_ok
    /\ Len(client.auth_exts) = 2 /\ client.auth_enc_exts = <<>>
    /\ \E i \in TamperPositions(client, net.data), k \in TamperBits :
          /\ net' = Datagram([net.data EXCEPT ![i] = FlipBitOf(net.data[i], k)])
          /\ client' = [client EXCEPT !.flip = [pos |-> i, bit |-> k]]
    /\ UNCHANGED <<ke_vars, lock_vars, codec_vars, overflow_checks, key_rot, boot_vars, s_pc, query, ts, result, sent>>

\* socket.recv_from into the BUF_SIZE buffer, then SystemTime::now()
RecvFrom ==
    /\ s_pc = "recv" /\ net.full
    /\ query' = SubSeq(net.data, 1, Min(Len(net.data), BUF_SIZE))
    /\ ts' \in Times
    /\ net' = NoDatagram
    /\ s_pc' = "respond"
    /\ UNCHANGED <<ke_vars, lock_vars, codec_vars, overflow_checks, key_rot, boot_vars, client, result, sent>>

\* the next recv_from fails: the ? returns from start_ntp_server
RecvFails ==
    /\ s_pc = "recv" /\ ~net.full
    /\ s_pc' = "exited"
    /\ query' = <<>> /\ result' = NoReply /\ sent' = NoDatagram
    /\ UNCHANGED <<ke_vars, lock_vars, codec_vars, overflow_checks, key_rot, boot_vars,
                   net, client, ts>>

\* line 109: response() returns r to the loop, which has yet to look at
\* it; a panic inside response() unwinds start_ntp_server
Returned(r) ==
    /\ result' = r
    /\ s_pc' = IF r.st = "Abort" THEN "panicked" ELSE "reply"
    /\ UNCHANGED <<key_rot, sent>>

\* lines 110-113: what the loop does with response()'s result: send_to
\* for Ok(data), where a failed send_to returns from start_ntp_server; an
\* error is passed over and the loop goes on
Replied ==
    /\ s_pc = "reply"
    /\ \/ /\ result.st = "Ok"
          /\ \/ sent' = Datagram(result.val) /\ s_pc' = "recv"
             \/ sent' = NoDatagram /\ s_pc' = "exited"
       \/ /\ result.st = "Err"
          /\ sent' = NoDatagram /\ s_pc' = "recv"
    /\ UNCHANGED <<ke_vars, codec_vars, overflow_checks, key_rot, boot_vars,
                   net, client, query, ts, result, lock_vars>>

\* lines 124-156: the requests that are answered without the keys, and the
\* others up to the call of line 157
HandlerResponse ==
    /\ s_pc = "respond"
    /\ IF reaches_point(query)
       THEN s_pc' = "point" /\ UNCHANGED <<key_rot, result, sent>>
       ELSE \E nonce \in ServerNonces :
               Returned(response(query, ts, key_rot, servstate, overflow_checks,
                                 nonce, CookieNonces(64)))
    /\ UNCHANGED <<ke_vars, codec_vars, overflow_checks, boot_vars, net,
                   client, query, ts, lock_vars>>

\* line 157 without the binding: the guard is a temporary of the statement
\* and is gone when the key is looked up
HandlerPoint_guard_not_kept ==
    /\ s_pc = "point"
    /\ CanRead
    /\ h_todo' = latest_calls(query, key_rot, overflow_checks)
    /\ s_pc' = IF h_todo' > 0 THEN "latest" ELSE "drop"
    /\ UNCHANGED <<ke_vars, codec_vars, overflow_checks, key_rot, boot_vars,
                   net, client, query, ts, result, sent, policy, w_pc, lock>>

\* line 157: `let point = cookie_keys.read().unwrap();`, then the key is
\* looked up, the cookie opened and the packet parsed
HandlerPoint ==
    /\ s_pc = "point"
    /\ CanRead
    /\ lock' = [lock EXCEPT !.readers = @ + 1]
    /\ h_todo' = latest_calls(query, key_rot, overflow_checks)
    /\ s_pc' = IF h_todo' > 0 THEN "latest" ELSE "drop"
    /\ UNCHANGED <<ke_vars, codec_vars, overflow_checks, key_rot, boot_vars,
                   net, client, query, ts, result, sent, policy, w_pc>>

\* lines 217 and 229: cookie_keys.read() inside nts_response
HandlerLatestRead ==
    /\ s_pc = "latest"
    /\ CanRead
    /\ lock' = [lock EXCEPT !.readers = @ + 1]
    /\ s_pc' = "latest_held"
    /\ UNCHANGED <<ke_vars, codec_vars, overflow_checks, key_rot, boot_vars,
                   net, client, query, ts, result, sent, policy, h_todo, w_pc>>

\* .unwrap().latest(), and the guard of the statement is dropped
HandlerLatestDrop ==
    /\ s_pc = "latest_held"
    /\ lock' = [lock EXCEPT !.readers = @ - 1]
    /\ h_todo' = h_todo - 1
    /\ s_pc' = IF h_todo' > 0 THEN "latest" ELSE "drop"
    /\ UNCHANGED <<ke_vars, codec_vars, overflow_checks, key_rot, boot_vars,
                   net, client, query, ts, result, sent, policy, w_pc>>

\* line 174: the Some(keyid) arm ends, `point` is dropped (also by a panic
\* that unwinds the arm) and response() returns what it made under it; the
\* lock is free before the loop sends the reply
HandlerDrop ==
    /\ s_pc = "drop"
    /\ lock' = [lock EXCEPT !.readers = @ - 1]
    /\ \E nonce \in ServerNonces :
          Returned(response(query, ts, key_rot, servstate, overflow_checks,
                            nonce, CookieNonces(64)))
    /\ UNCHANGED <<ke_vars, codec_vars, overflow_checks, boot_vars, net,
                   client, query, ts, policy, h_todo, w_pc>>

Next ==
    \/ RotateKeysOk \/ RotateKeysFailed \/ Sleep \/ PeriodicRotate \/ Bind
    \/ RotatorTick \/ RotatorWrite \/ RotatorRotate \/ RotatorDrop
    \/ SendRaw \/ SendNts \/ Tamper \/ RecvFrom \/ RecvFails
    \/ HandlerResponse \/ HandlerPoint \/ HandlerLatestRead
    \/ HandlerLatestDrop \/ HandlerDrop \/ Replied

Spec == Init /\ [][Next]_vars

(***************************************************************************)
(* Properties of the codec.                                                *)
(***************************************************************************)
NtsPacketOf(in) ==
    [header |-> in.header, auth_exts |-> in.auth_exts,
     auth_enc_exts |-> in.auth_enc_exts]

\* every extension fits the 16-bit length field
FitsLengthField(exts) == \A i \in 1..Len(exts) : Len(exts[i].contents) + 4 < 65536
WordAligned(exts) == \A i \in 1..Len(exts) : Len(exts[i].contents) % 4 = 0
\* the authenticator that seals exts fits the 16-bit length fields: its
\* contents are two length fields, the nonce and the ciphertext
SealedFits(exts) ==
    Len(serialize_extensions(exts).val) + AEAD_TAG_LEN + NONCE_LEN + 4 + 4 < 65536
NoAuthenticator(exts) == \A i \in 1..Len(exts) : exts[i].ext_type # NTSAuthenticator

\* C1 as stated: for every header (version 0..7), auth_exts without an
\* NTSAuthenticator and auth_enc_exts with word-aligned contents, and every
\* key, parsing the serialized NTS packet succeeds and returns the packet.
C1_NtsRoundTripAnyType ==
    (/\ c_in.kind = "nts" /\ c_stage = "parsed"
     /\ NoAuthenticator(c_in.auth_exts)
     /\ WordAligned(c_in.auth_exts) /\ WordAligned(c_in.auth_enc_exts))
    => c_out = Ok(NtsPacketOf(c_in))

\* C1 amended: the round trip holds when, in addition, no extension of either
\* list is an Unknown(y) with y one of the four recognized codes, and every
\* extension, the authenticator included, fits the 16-bit length field.
C1_NtsRoundTrip ==
    (/\ c_in.kind = "nts" /\ c_stage # "input"
     /\ NoAuthenticator(c_in.auth_exts)
     /\ WordAligned(c_in.auth_exts) /\ WordAligned(c_in.auth_enc_exts)
     /\ CanonicalList(c_in.auth_exts) /\ CanonicalList(c_in.auth_enc_exts)
     /\ FitsLengthField(c_in.auth_exts) /\ FitsLengthField(c_in.auth_enc_exts)
     /\ SealedFits(c_in.auth_enc_exts))
    => /\ c_wire.st = "Ok"
       /\ c_stage = "parsed" => c_out = Ok(NtsPacketOf(c_in))

\* two extensions of different types and lengths in each list, under a
\* header that is neither version 4 nor mode Client, come back in order
C1_Witness ==
    /\ c_in.kind = "nts" /\ c_stage = "parsed"
    /\ c_in.key = Key1
    /\ c_in.header.version = 3 /\ c_in.header.mode = "SymmetricPassive"
    /\ c_in.auth_exts = TwoAuthExts /\ c_in.auth_enc_exts = TwoEncExts
    /\ c_in.auth_exts[1] # c_in.auth_exts[2]
    /\ c_in.auth_enc_exts[1] # c_in.auth_enc_exts[2]
    /\ c_out.st = "Ok"
    /\ c_out.val.header = c_in.header
    /\ c_out.val.auth_exts[1].ext_type = UniqueIdentifier
    /\ c_out.val.auth_exts[2].ext_type = NTSCookie
    /\ c_out.val.auth_enc_exts[1].ext_type = NTSCookiePlaceholder
    /\ c_out.val.auth_enc_exts[2].ext_type = Unknown(30583)

\* C2 as stated: a serialized NTS packet with one bit inverted, anywhere, is
\* rejected by parse_nts_packet with an error: it is not accepted and the
\* parser does not abort.
C2_TamperDetected ==
    (c_in.kind = "nts" /\ c_stage = "parsed" /\ c_flip # NoFlip)
    => c_out.st = "Err"

\* C3: the header survives serialize_header then parse_packet_header, and its
\* wire form is 48 bytes, for every leap state, version 0..7 and mode.
C3_HeaderRoundTrip ==
    (c_in.kind = "header" /\ c_stage # "input")
    => /\ c_wire.st = "Ok" /\ Len(c_wire.val) = 48
       /\ c_stage = "parsed" => c_out = Ok(c_in.header)

C3_Witness ==
    /\ c_in.kind = "header" /\ c_stage = "parsed"
    /\ c_in.header.version = 7 /\ c_in.header.mode = "Broadcast"
    /\ c_in.header.leap_indicator = "Negative"
    /\ c_in.header.precision = -18
    /\ c_out.st = "Ok"

\* C4 as stated: for every list of extensions of any type value, Unknown(y)
\* included, with word-aligned contents, the serialized list is a whole number
\* of words and parses back to the same list.
C4_ExtRoundTripAnyType ==
    (c_in.kind = "exts" /\ c_stage # "input" /\ WordAligned(c_in.auth_exts))
    => /\ c_wire.st = "Ok" /\ Len(c_wire.val) % 4 = 0
       /\ c_stage = "parsed" => c_out = Ok(c_in.auth_exts)

\* C4 amended: the same, for lists in which no type is an Unknown(y) with y
\* one of the four recognized codes and every extension fits the 16-bit
\* length field.
C4_ExtRoundTrip ==
    (/\ c_in.kind = "exts" /\ c_stage # "input" /\ WordAligned(c_in.auth_exts)
     /\ CanonicalList(c_in.auth_exts) /\ FitsLengthField(c_in.auth_exts))
    => /\ c_wire.st = "Ok" /\ Len(c_wire.val) % 4 = 0
       /\ c_stage = "parsed" => c_out = Ok(c_in.auth_exts)

C4_Witness ==
    /\ c_in.kind = "exts" /\ c_stage = "parsed"
    /\ Len(c_in.auth_exts) = 2
    /\ c_in.auth_exts[1].ext_type = Unknown(30583)
    /\ c_in.auth_exts[2].ext_type = NTSAuthenticator
    /\ Len(c_in.auth_exts[1].contents) = 4
    /\ c_out.st = "Ok"

(***************************************************************************)
(* The parsers on packets as a peer may craft them: a Client-mode header,  *)
(* one extension whose length field is any value up to MaxDeclaredLen,     *)
(* and perhaps an authenticator sealed over all that precedes it.          *)
(***************************************************************************)
\* the largest length an extension header declares
MaxDeclaredLen == 9

\* an authenticator extension with no encrypted extensions, sealed with
\* associated data ad
AuthenticatorFor(ad, key, nonce) ==
    write_u16(EXT_TYPE_NTS_AUTHENTICATOR)
        \o write_u16(4 + 4 + NONCE_LEN + AEAD_TAG_LEN)
        \o write_u16(NONCE_LEN) \o write_u16(AEAD_TAG_LEN)
        \o nonce \o Seal(key, nonce, ad, <<>>)

\* the header, an extension header (code, len) and the contents that len
\* declares (none when len is below 4)
CraftedPrefix(code, len) ==
    serialize_header(TestHeader) \o write_u16(code) \o write_u16(len)
        \o [i \in 1..(IF len >= 4 THEN len - 4 ELSE 0) |-> 160 + i]

\* the header and an extension header (code, len) followed by only have of
\* the len - 4 bytes of contents that it declares
TruncatedPacket(code, len, have) ==
    serialize_header(TestHeader) \o write_u16(code) \o write_u16(len)
        \o [i \in 1..have |-> 160 + i]
TruncatedPackets ==
    {TruncatedPacket(code, len, have) :
        code \in {EXT_TYPE_UNIQUE_IDENTIFIER, EXT_TYPE_NTS_AUTHENTICATOR},
        len \in {8, 12, 64}, have \in {0, 2, 4}}

\* bytes that may follow the authenticator: none, a tail shorter than an
\* extension header, a well-formed extension, one with a length that is not
\* a multiple of 4, and the header of a second authenticator
Suffixes ==
    {<<>>, <<1, 2>>,
     write_u16(EXT_TYPE_UNIQUE_IDENTIFIER) \o write_u16(8) \o <<9, 8, 7, 6>>,
     write_u16(30583) \o write_u16(6) \o <<5, 4>>,
     write_u16(EXT_TYPE_NTS_AUTHENTICATOR) \o write_u16(64)}
\* a request whose authenticator verifies (Key1) or does not (Key0),
\* followed by a suffix
SuffixedPackets ==
    {CraftedPrefix(EXT_TYPE_UNIQUE_IDENTIFIER, 8)
        \o AuthenticatorFor(CraftedPrefix(EXT_TYPE_UNIQUE_IDENTIFIER, 8), key, Nonce1)
        \o sfx : key \in {Key0, Key1}, sfx \in Suffixes}
\* a request whose authenticator declares 4 bytes of contents more than the
\* datagram holds, sealed over the datagram less the 4 bytes in front of
\* the authenticator
SlackPacket ==
    LET prefix == CraftedPrefix(EXT_TYPE_UNIQUE_IDENTIFIER, 8)
        ad == Slice(prefix, 0, Len(prefix) - 4)
    IN  prefix \o write_u16(EXT_TYPE_NTS_AUTHENTICATOR)
            \o write_u16(4 + 4 + NONCE_LEN + AEAD_TAG_LEN + 4)
            \o write_u16(NONCE_LEN) \o write_u16(AEAD_TAG_LEN)
            \o Nonce1 \o Seal(Key1, Nonce1, ad, <<>>)

CraftedPackets ==
    TruncatedPackets \cup SuffixedPackets \cup {SlackPacket} \cup
    {CraftedPrefix(code, len) :
        code \in {EXT_TYPE_UNIQUE_IDENTIFIER, 30583, EXT_TYPE_NTS_AUTHENTICATOR},
        len \in 0..MaxDeclaredLen}
    \cup {CraftedPrefix(code, len) \o AuthenticatorFor(CraftedPrefix(code, len), Key1, Nonce1) :
            code \in {EXT_TYPE_UNIQUE_IDENTIFIER, 30583}, len \in 0..MaxDeclaredLen}

InitParse ==
    /\ overflow_checks \in BOOLEAN
    /\ IdleKe
    /\ IdleLock
    /\ c_stage = "wire"
    /\ c_in = CodecInput("raw", TestHeader, <<>>, <<>>, Key1)
    /\ c_wire \in {Ok(b) : b \in CraftedPackets}
    /\ c_flip = NoFlip
    /\ c_out = NoResult
    /\ ServerReady

ParseRawNtp ==
    /\ c_stage = "wire" /\ c_in.kind = "raw"
    /\ c_out' = parse_ntp_packet(c_wire.val)
    /\ c_stage' = "parsed_ntp"
    /\ UNCHANGED <<ke_vars, lock_vars, server_vars, overflow_checks, c_in, c_wire, c_flip>>

ParseRawNts ==
    /\ c_stage = "wire" /\ c_in.kind = "raw"
    /\ c_out' = parse_nts_packet(c_wire.val, c_in.key, overflow_checks)
    /\ c_stage' = "parsed_nts"
    /\ UNCHANGED <<ke_vars, lock_vars, server_vars, overflow_checks, c_in, c_wire, c_flip>>

NextParse == ParseRawNtp \/ ParseRawNts

SpecParse == InitParse /\ [][NextParse]_vars

(***************************************************************************)
(* Properties of the responder.  A datagram has been handled when result   *)
(* holds response()'s result for query and the loop has acted on it.       *)
(***************************************************************************)
Handled == result.kind # "none" /\ s_pc # "reply"
QueryPacket == parse_ntp_packet(query)
CountOf(exts, kind, minlen) ==
    Cardinality({i \in 1..Len(exts) :
                    exts[i].ext_type = kind /\ Len(exts[i].contents) >= minlen})

\* the request is an untampered NTS request with a cookie the server can open
\* and an authenticator under the cookie's c2s
ValidNtsRequest ==
    /\ client.kind = "nts" /\ client.flip = NoFlip
    /\ client.cookie \in {"latest", "previous"} /\ client.auth_ok

\* C5 as stated: the reply to a valid NTS request that carries placeholders,
\* in its authenticated or in its encrypted list, has in auth_enc_exts one
\* NTSCookie for each placeholder of at least COOKIE_SIZE bytes, and one more.
C5_CookieReplacement ==
    (Handled /\ ValidNtsRequest)
    => /\ result.kind = "nts"
       /\ LET reply == parse_nts_packet(result.val, ClientKeys.s2c, overflow_checks)
          IN  /\ reply.st = "Ok"
              /\ CountOf(reply.val.auth_enc_exts, NTSCookie, 0)
                    = CountOf(client.auth_exts, NTSCookiePlaceholder, COOKIE_SIZE)
                      + CountOf(client.auth_enc_exts, NTSCookiePlaceholder, COOKIE_SIZE)
                      + 1

\* C6: a kiss-of-death packet has leap Unknown, mode Server, stratum 0,
\* reference id "NTSN", the request's transmit timestamp as origin and zero
\* reference, receive and transmit timestamps; its extensions are the
\* request's first UniqueIdentifier, if it has one, and nothing else; and it
\* is what send_to sends.
C6_KodShape ==
    (Handled /\ result.kind = "kod")
    => LET kod == parse_ntp_packet(result.val)
       IN  /\ kod.st = "Ok"
           /\ kod.val.header.leap_indicator = "Unknown"
           /\ kod.val.header.mode = "Server"
           /\ kod.val.header.stratum = 0
           /\ kod.val.header.reference_id = <<20052, 21326>>
           /\ kod.val.header.origin_timestamp = read_u64(query, 40)
           /\ kod.val.header.reference_timestamp = <<0, 0, 0, 0>>
           /\ kod.val.header.receive_timestamp = <<0, 0, 0, 0>>
           /\ kod.val.header.transmit_timestamp = <<0, 0, 0, 0>>
           /\ kod.val.exts =
                 IF has_extension(QueryPacket.val, UniqueIdentifier)
                 THEN <<extract_extension(QueryPacket.val, UniqueIdentifier)>>
                 ELSE <<>>
           /\ \A i \in 1..Len(kod.val.exts) :
                 kod.val.exts[i].ext_type \notin {NTSCookie, NTSAuthenticator}
           /\ s_pc = "recv" => sent = Datagram(result.val)

C6_Witness ==
    /\ Handled /\ result.kind = "kod" /\ sent.full
    /\ parse_mode(read_u8(query, 0)) = "Broadcast"
    /\ Len(parse_ntp_packet(sent.data).val.exts) = 1
    /\ read_u64(sent.data, 24) = <<4660, 22136, 39612, 57072>>

\* C7 as stated: a datagram of at least 48 bytes whose mode is not Client is
\* answered with a kiss-of-death packet, whatever follows its header.
C7_NonClientGetsKod ==
    (Handled /\ Len(query) >= 48 /\ parse_mode(read_u8(query, 0)) # "Client")
    => result.kind = "kod"

\* the request's cookie is too short for a key id, or names a key that is
\* not in the map, or does not open under that key, or the authenticator
\* does not verify under the c2s of the cookie
NtsRequestFails ==
    LET cookie == extract_extension(QueryPacket.val, NTSCookie)
        keyid == get_keyid(cookie.contents)
    IN  \/ keyid.st # "Ok"
        \/ keyid.val \notin DOMAIN key_rot.keys
        \/ LET keys == eat_cookie(cookie.contents, key_rot.keys[keyid.val])
           IN  \/ keys.st # "Ok"
               \/ parse_nts_packet(query, keys.val.c2s, overflow_checks).st # "Ok"

\* C8 as stated: a Client-mode NTS request whose cookie or authenticator
\* fails is answered with a kiss-of-death packet.
C8_FailedNtsGetsKod ==
    (/\ Handled /\ QueryPacket.st = "Ok"
     /\ QueryPacket.val.header.mode = "Client"
     /\ is_nts_packet(QueryPacket.val)
     /\ NtsRequestFails)
    => result.kind = "kod"

\* the reply is the 48-byte header alone: mode Server, origin the request's
\* transmit timestamp, receive and transmit the timestamp of the receipt
PlainReplied ==
    /\ result.kind = "plain"
    /\ Len(result.val) = 48
    /\ LET h == parse_packet_header(result.val).val
       IN  /\ h.mode = "Server"
           /\ h.origin_timestamp = read_u64(query, 40)
           /\ h.receive_timestamp = response_timestamp(ts)
           /\ h.transmit_timestamp = h.receive_timestamp
    /\ s_pc = "recv" => sent = Datagram(result.val)

\* the datagram does not show an extension of the type: its extension
\* field holds none, or cannot be read as extensions at all
Lacks(kind) == QueryPacket.st # "Ok" \/ ~has_extension(QueryPacket.val, kind)

\* C9: every datagram with a Client-mode header that lacks a
\* UniqueIdentifier, an NTSCookie or an NTSAuthenticator is answered with the
\* 48-byte header alone: mode Server, origin the request's transmit
\* timestamp, receive and transmit the timestamp of the receipt.
C9_PlainReply ==
    (/\ Handled /\ parse_packet_header(query).st = "Ok"
     /\ parse_packet_header(query).val.mode = "Client"
     /\ Lacks(UniqueIdentifier) \/ Lacks(NTSCookie) \/ Lacks(NTSAuthenticator))
    => PlainReplied

\* what the responder does do: the same for the datagrams that
\* parse_ntp_packet accepts
C9_ParsedPlainReply ==
    (/\ Handled /\ QueryPacket.st = "Ok"
     /\ QueryPacket.val.header.mode = "Client"
     /\ \/ ~has_extension(QueryPacket.val, UniqueIdentifier)
        \/ ~has_extension(QueryPacket.val, NTSCookie)
        \/ ~has_extension(QueryPacket.val, NTSAuthenticator))
    => PlainReplied

\* 23956 * 65536 + 27520 seconds after 1970 are 0xE13E_EA00 seconds after 1900
C9_ParsedPlainReplySeen ==
    /\ Handled /\ result.kind = "plain" /\ sent.full
    /\ has_extension(QueryPacket.val, NTSCookie)
    /\ has_extension(QueryPacket.val, NTSAuthenticator)
    /\ ts = StartTime
    /\ read_u64(sent.data, 32) = <<57662, 59904, 0, 0>>
    /\ read_u64(sent.data, 24) = <<4660, 22136, 39612, 57072>>

\* C10: a datagram shorter than 48 bytes fails header decoding, nothing is
\* sent for it and the loop is back in recv_from.
C10_ShortDropped ==
    (Handled /\ Len(query) < 48)
    => /\ parse_packet_header(query).st = "Err"
       /\ result.kind = "drop"
       /\ sent = NoDatagram
       /\ s_pc = "recv"

C10_Witness ==
    /\ Handled /\ Len(query) = 47 /\ result.kind = "drop" /\ s_pc = "recv"

IsUid(ext) == ext.ext_type = UniqueIdentifier
\* the reply as the client opens it, under the s2c of its NTS-KE session
ReplyPacket == parse_nts_packet(result.val, ClientKeys.s2c, overflow_checks)

\* the UniqueIdentifier extensions of a request: those of the datagram, in
\* front of the authenticator and behind it, and those the client encrypted
RequestUids ==
    SelectSeq(QueryPacket.val.exts, IsUid) \o SelectSeq(client.auth_enc_exts, IsUid)

\* C11: the associated-data extensions of an NTS reply are the
\* UniqueIdentifier extensions of the request, with the same contents and in
\* the same order, and nothing else.
C11_UidEcho ==
    (Handled /\ result.kind = "nts")
    => /\ ReplyPacket.st = "Ok"
       /\ ReplyPacket.val.auth_exts = RequestUids
       /\ \A i \in 1..Len(ReplyPacket.val.auth_exts) :
             ReplyPacket.val.auth_exts[i].ext_type = UniqueIdentifier

\* what the responder does do: it echoes the UniqueIdentifier extensions
\* that the request carries in front of its authenticator
C11_AssociatedUidEcho ==
    (Handled /\ result.kind = "nts")
    => /\ ReplyPacket.st = "Ok"
       /\ ReplyPacket.val.auth_exts = SelectSeq(client.auth_exts, IsUid)
       /\ \A i \in 1..Len(ReplyPacket.val.auth_exts) :
             ReplyPacket.val.auth_exts[i].ext_type = UniqueIdentifier

C11_AssociatedUidEchoSeen ==
    /\ Handled /\ result.kind = "nts" /\ client.auth_exts = MixedExts
    /\ ReplyPacket.val.auth_exts = <<Uid2Ext, UidExt>>

\* a request with its only UniqueIdentifier behind the authenticator is
\* answered with an NTS reply that echoes none
C11_UidBehindNotEchoed ==
    /\ Handled /\ result.kind = "nts" /\ client.kind = "nts_uid_behind"
    /\ RequestUids = <<UidExt>>
    /\ ReplyPacket.st = "Ok" /\ ReplyPacket.val.auth_exts = <<>>

\* a UniqueIdentifier in the encrypted list is not echoed either
C11_EncryptedUidNotEchoed ==
    /\ Handled /\ result.kind = "nts" /\ client.auth_enc_exts = <<Uid2Ext>>
    /\ ReplyPacket.st = "Ok" /\ ReplyPacket.val.auth_exts = <<UidExt>>

\* the keys the responder recovers from the cookie of request q under rot
CookieOf(q) == extract_extension(parse_ntp_packet(q).val, NTSCookie).contents
RecoveredKeys(q, rot) ==
    eat_cookie(CookieOf(q), rot.keys[get_keyid(CookieOf(q)).val])

\* reply is sealed under keys.s2c, and each of its cookies names the latest
\* key of rot and opens under it to keys
SealedAndMintedFrom(reply, keys, rot, oc) ==
    LET packet == parse_nts_packet(reply, keys.s2c, oc)
    IN  /\ packet.st = "Ok"
        /\ keys.c2s # keys.s2c => parse_nts_packet(reply, keys.c2s, oc).st = "Err"
        /\ \A i \in 1..Len(packet.val.auth_enc_exts) :
              LET ext == packet.val.auth_enc_exts[i]
              IN  ext.ext_type = NTSCookie
                  => /\ get_keyid(ext.contents) = Ok(latest(rot).id)
                     /\ eat_cookie(ext.contents, latest(rot).key) = Ok(keys)

\* C12: when response() answers with an NTS reply, the request's
\* authenticator verifies under the c2s recovered from the request's cookie,
\* the reply opens under the s2c recovered from that cookie, and every cookie
\* of the reply is that (c2s, s2c) pair sealed under the latest (id, key) of
\* the rotating keys.
C12_KeyConsistency ==
    [][(s_pc \in {"respond", "drop"} /\ result'.kind = "nts")
       => LET keys == RecoveredKeys(query, key_rot)
          IN  /\ keys.st = "Ok"
              /\ parse_nts_packet(query, keys.val.c2s, overflow_checks).st = "Ok"
              /\ SealedAndMintedFrom(result'.val, keys.val, key_rot, overflow_checks)]_vars

\* a request under a cookie of the previous key was answered with cookies of
\* the latest key
C12_Witness ==
    /\ Handled /\ result.kind = "nts" /\ client.cookie = "previous"
    /\ get_keyid(CookieOf(query)).val # latest(key_rot).id
    /\ Len(ReplyPacket.val.auth_enc_exts) = 1
    /\ get_keyid(ReplyPacket.val.auth_enc_exts[1].contents).val = latest(key_rot).id
    /\ eat_cookie(ReplyPacket.val.auth_enc_exts[1].contents, latest(key_rot).key)
          = Ok(ClientKeys)

\* the positions of the receive loop inside response()
InResponse == {"respond", "point", "latest", "latest_held", "drop"}

\* rotate_keys has succeeded and left a key map that holds its latest key
KeysInitialised ==
    /\ rotations >= 1
    /\ key_rot.latest \in DOMAIN key_rot.keys

\* start_ntp_server is past its start-up loop
PastStartup ==
    \/ rotator \/ bound
    \/ s_pc \in {"spawn", "bind", "recv", "reply"} \/ s_pc \in InResponse
    \/ net.full \/ Handled \/ sent.full

\* C17: the rotation thread is not started, the socket not bound and no
\* datagram received or answered before a rotate_keys call has succeeded;
\* while none has, start_ntp_server stays in its loop of calls and sleeps.
C17_StartupOrdering ==
    /\ [](PastStartup => KeysInitialised)
    /\ [][(rotations = 0 /\ rotations' = 0) => s_pc' \in {"rotate", "sleep"}]_vars

\* the first call failed, the second succeeded, and the server has answered
C17_Witness ==
    /\ rotations >= 1 /\ rotator /\ bound /\ sent.full
    /\ result.kind = "plain"

\* C18 as stated: the handling of every datagram ends in a drop, a
\* kiss-of-death reply, a plain reply or an NTS reply, and start_ntp_server
\* is then back in recv_from, whatever the datagram holds and whether or not
\* send_to succeeds.
C18_ErrorsAbsorbed ==
    Handled => /\ result.kind \in {"drop", "kod", "plain", "nts"}
               /\ s_pc = "recv"

\* the positions of response() at which the guard `point` of line 157 is
\* held
HoldsPoint == s_pc \in {"latest", "latest_held", "drop"}

\* C19 as stated: for every datagram the pair (latest, keys) is the same
\* before and after response(): nothing changes it while response() runs.
C19_KeysSameAcrossResponse ==
    [][(s_pc \in InResponse) => key_rot' = key_rot]_vars

\* C19 amended: no step of response() changes the pair (latest, keys) or
\* touches the write side of the lock; from the read() of line 157 to the
\* drop of `point` no step of any thread changes the pair; and the pair
\* changes only in a successful rotate_keys call, made by the start-up loop
\* before the rotation thread exists or by the rotation thread under the
\* write guard with no read guard out.
C19_HandlersLeaveKeys ==
    /\ [][(s_pc \in InResponse /\ s_pc' # s_pc)
            => /\ key_rot' = key_rot
               /\ lock'.writer = lock.writer /\ lock'.waiting = lock.waiting]_vars
    /\ [][HoldsPoint => key_rot' = key_rot]_vars
    /\ [][key_rot' # key_rot
            => /\ rotations' = rotations + 1
               /\ \/ s_pc = "rotate" /\ ~rotator
                  \/ w_pc = "rotating" /\ lock.writer /\ lock.readers = 0]_vars

\* the rotation thread waits for the write guard while a handler holds
\* `point` over the keys of the start-up rotation
C19_Witness ==
    /\ HoldsPoint /\ lock.readers > 0
    /\ w_pc = "write" /\ lock.waiting /\ rotations = 1
    /\ key_rot = RotatedKeys(MasterKey, EpochOf(StartTime))

\* the length that the first extension of a crafted packet declares
FirstDeclaredLen == read_u16(c_wire.val, HEADER_SIZE + 2)

\* C20 as stated: parse_ntp_packet and parse_nts_packet return an error, and
\* do not abort, when an extension they read declares a length below 4 or a
\* length that is not a multiple of 4.
C20_LengthValidated ==
    (/\ c_in.kind = "raw" /\ c_stage \in {"parsed_ntp", "parsed_nts"}
     /\ (FirstDeclaredLen < 4 \/ FirstDeclaredLen % 4 # 0))
    => c_out.st = "Err"

(***************************************************************************)
(* The NTS-KE client's read loop against a server's response, delivered by *)
(* read() in pieces of any size.                                           *)
(***************************************************************************)
\* NewCookie records in a response
MaxCookies == 2

\* a record as the server writes it: any wire code, recognized or not
WireRecord(critical, code, contents) ==
    [critical |-> critical, code |-> code, contents |-> contents]
RECURSIVE Flatten(_)
Flatten(seqs) == IF seqs = <<>> THEN <<>> ELSE Head(seqs) \o Flatten(Tail(seqs))
U16s(list) == Flatten([i \in 1..Len(list) |-> write_u16(list[i])])
NextProtoRec(list) == WireRecord(TRUE, 1, U16s(list))
AeadRec(list) == WireRecord(FALSE, 4, U16s(list))
CookieRec(i) == WireRecord(FALSE, 5, Contents(1, 10 * i))
EndRec == WireRecord(TRUE, 0, <<>>)
ErrorRec == WireRecord(TRUE, 2, write_u16(1))
WarningRec == WireRecord(FALSE, 3, write_u16(1))
PortRec(port) == WireRecord(FALSE, 7, write_u16(port))
UnknownRec(critical) == WireRecord(critical, 9, <<171>>)

CookieRecs(n) == [i \in 1..n |-> CookieRec(i)]
\* NextProtocolNegotiation=[0], AEADAlgorithmNegotiation=[15], n NewCookie
\* records, EndOfMessage
HappyResponse(n) ==
    <<NextProtoRec(<<0>>), AeadRec(<<15>>)>> \o CookieRecs(n) \o <<EndRec>>
HappyResponses == {HappyResponse(n) : n \in 0..MaxCookies}

KeResponses ==
    HappyResponses
    \cup {HappyResponse(1) \o <<CookieRec(2)>>,
          <<NextProtoRec(<<0>>), AeadRec(<<15>>), EndRec, ErrorRec>>,
          <<ErrorRec>>,
          <<WarningRec, ErrorRec, EndRec>>,
          <<NextProtoRec(<<0>>), AeadRec(<<15>>), CookieRec(1), ErrorRec, EndRec>>,
          <<NextProtoRec(<<0>>), AeadRec(<<>>), EndRec>>,
          <<NextProtoRec(<<0>>), AeadRec(<<15, 16>>), ErrorRec, EndRec>>,
          <<NextProtoRec(<<0>>), AeadRec(<<15>>), PortRec(4460), CookieRec(1), EndRec>>,
          <<UnknownRec(FALSE), NextProtoRec(<<0>>), AeadRec(<<15>>), EndRec>>,
          <<UnknownRec(TRUE), EndRec>>,
          <<NextProtoRec(<<0>>), AeadRec(<<15>>)>>}

StreamOf(resp) ==
    Flatten([i \in 1..Len(resp) |->
                serialize_code(resp[i].critical, resp[i].code, resp[i].contents)])

\* the request is transmitted and the ClientState built (lines 177-197)
InitKe ==
    /\ overflow_checks \in BOOLEAN
    /\ IdleCodec
    /\ IdleLock
    /\ ServerReady
    /\ \E resp \in KeResponses : ke_conn = Connection(resp, StreamOf(resp))
    /\ ke_buf = [len |-> 4, curr |-> 0, readptr |-> 0]
    /\ ke_state = InitialClientState
    /\ ke_pc = "read"
    /\ ke_ret = NoResult

NtsKeResult(state) ==
    [aead_scheme |-> state.aead_scheme, cookies |-> state.cookies,
     next_protocols |-> state.next_protocols,
     next_server |-> state.next_server, next_port |-> state.next_port]

\* what one tls_stream.read(&mut buf[readptr..]) may return: an error (-1:
\* the read timeout set at lines 155-156, a reset, a TLS failure) at any
\* call, or Ok(n) with n of the bytes that the server has sent, as many as
\* fit; n = 0 when the stream is at its end or no space is left, and at any
\* other call as well (io::Read allows it)
ReadCounts(space, avail) ==
    {-1} \cup 0..(IF space < avail THEN space ELSE avail)

\* &buf[curr..]: the bytes that the reads have written (read() copies the
\* stream's next bytes to buf[readptr..], and readptr counts them), then the
\* zeros that no read has written yet
buf_from(curr) ==
    [i \in 1..(ke_buf.len - curr) |->
        IF curr + i <= ke_buf.readptr THEN ke_conn.stream[curr + i] ELSE 0]

\* lines 198-206: the head of the outer loop
KeRead ==
    /\ ke_pc = "read"
    /\ \E more \in ReadCounts(ke_buf.len - ke_buf.readptr,
                              Len(ke_conn.stream) - ke_conn.off) :
          IF more < 0
          THEN /\ ke_pc' = "done"
               /\ ke_ret' = Err("Io")
               /\ UNCHANGED <<ke_conn, ke_buf>>
          ELSE /\ ke_buf' = [ke_buf EXCEPT !.readptr = @ + more]
               /\ ke_conn' = [ke_conn EXCEPT !.off = @ + more]
               /\ ke_pc' = "record"
               /\ UNCHANGED ke_ret
    /\ UNCHANGED <<ke_state, overflow_checks, codec_vars, server_vars,
                   lock_vars>>

\* lines 207-241: one turn of the inner loop
KeRecord ==
    /\ ke_pc = "record"
    /\ LET rec == deserialize_record(buf_from(ke_buf.curr))
           status == process_record(rec.rec, ke_state)
       IN  CASE rec.st = "Some" /\ status.st = "Ok" ->
                  /\ ke_state' = status.state
                  /\ ke_buf' = [ke_buf EXCEPT !.curr = @ + rec.n]
                  /\ UNCHANGED <<ke_pc, ke_ret>>
             [] rec.st = "Some" /\ status.st = "Abort" ->
                  /\ ke_pc' = "panicked"
                  /\ UNCHANGED <<ke_state, ke_buf, ke_ret>>
             [] rec.st = "Some" /\ status.st \notin {"Ok", "Abort"} ->
                  /\ ke_state' = status.state
                  /\ ke_pc' = "done"
                  /\ ke_ret' = Err(status.st)
                  /\ UNCHANGED ke_buf
             [] rec.st = "None" ->
                  /\ ke_buf' = [ke_buf EXCEPT !.curr = @ + rec.n]
                  /\ UNCHANGED <<ke_state, ke_pc, ke_ret>>
             [] rec.st = "TooShort" ->
                  \* buf.resize(curr + n, 0)
                  /\ ke_buf' = [ke_buf EXCEPT !.len = ke_buf.curr + rec.n]
                  /\ ke_pc' = IF ke_state.finished THEN "shutdown" ELSE "read"
                  /\ UNCHANGED <<ke_state, ke_ret>>
             [] rec.st = "Err" ->
                  /\ ke_pc' = "done"
                  /\ ke_ret' = Err("Deserialize")
                  /\ UNCHANGED <<ke_state, ke_buf>>
    /\ UNCHANGED <<ke_conn, overflow_checks, codec_vars, server_vars,
                   lock_vars>>

\* lines 244-254: stream.shutdown(Shutdown::Both)? and the result
KeShutdown ==
    /\ ke_pc = "shutdown"
    /\ ke_pc' = "done"
    /\ ke_ret' \in {Ok(NtsKeResult(ke_state)), Err("Io")}
    /\ UNCHANGED <<ke_conn, ke_buf, ke_state, overflow_checks, codec_vars,
                   server_vars, lock_vars>>

NextKe == KeRead \/ KeRecord \/ KeShutdown

SpecKe == InitKe /\ [][NextKe]_vars

\* the position of the first EndOfMessage of a response, Len + 1 without
FirstEnd(resp) ==
    IF \E i \in 1..Len(resp) : resp[i].code = 0
    THEN CHOOSE i \in 1..Len(resp) :
            resp[i].code = 0 /\ \A j \in 1..(i - 1) : resp[j].code # 0
    ELSE Len(resp) + 1
\* a record that process_record takes without an error, before EndOfMessage
Accepted(r) ==
    \/ r.code \in {1, 3, 5, 6}
    \/ r.code = 4 /\ Len(r.contents) = 2
    \/ r.code = 7 /\ Len(r.contents) >= 2
    \/ r.code > 7 /\ ~r.critical
\* the client returned, and neither a read nor the shutdown failed
KeReturned == ke_pc = "done" /\ ke_ret # Err("Io")
KeEnded == ke_pc = "panicked" \/ KeReturned
\* the record that the inner loop is about to hand to process_record
KeDispatched ==
    deserialize_record(buf_from(ke_buf.curr))
KeDispatching(record_type) ==
    /\ ke_pc = "record" /\ ke_buf.curr <= ke_buf.len
    /\ KeDispatched.st = "Some"
    /\ KeDispatched.rec.record_type = record_type

\* C13 as stated: when the server sends a record after EndOfMessage the
\* client fails with RecordAfterEnd, and process_record with
\* state.finished = true returns RecordAfterEnd for every record type and
\* leaves the state unchanged.
C13_RecordAfterEnd ==
    /\ (/\ FirstEnd(ke_conn.resp) < Len(ke_conn.resp)
        /\ \A j \in 1..(FirstEnd(ke_conn.resp) - 1) : Accepted(ke_conn.resp[j])
        /\ KeEnded)
       => ke_ret = Err("RecordAfterEnd")
    /\ \A t \in 1..8, critical \in BOOLEAN :
          LET finished == [ke_state EXCEPT !.finished = TRUE]
          IN  process_record(NtsKeRecord(critical, NtsKeTypes[t], U16s(<<15>>)),
                             finished)
                = Processed("RecordAfterEnd", finished)

\* the inner loop never hands a record to process_record once
\* state.finished is set (it is what keeps the second half of C13 from
\* acting in run_nts_ke_client)
KeNoDispatchAfterEnd ==
    ~(ke_pc = "record" /\ ke_state.finished /\ KeDispatched.st = "Some")

\* the bytes of the response up to the end of its i-th record
EndOffset(resp, i) == Len(StreamOf(SubSeq(resp, 1, i)))

\* C14 as stated: when the client has received an Error record that the
\* response holds before any EndOfMessage (after records that the client
\* accepts), it returns Err(ErrorRecord) and never an NtsKeResult.
C14_ErrorAborts ==
    (/\ \E i \in 1..(FirstEnd(ke_conn.resp) - 1) :
           /\ ke_conn.resp[i].code = 2
           /\ \A j \in 1..(i - 1) : Accepted(ke_conn.resp[j])
           /\ ke_conn.off >= EndOffset(ke_conn.resp, i)
     /\ KeEnded)
    => ke_ret = Err("ErrorRecord")

\* an Error record that the loop does hand to process_record before
\* EndOfMessage ends the exchange with Err(ErrorRecord)
KeErrorDispatchAborts ==
    [][KeDispatching("Error") /\ ~ke_state.finished
         => ke_pc' = "done" /\ ke_ret' = Err("ErrorRecord")]_vars

\* C15 as stated: an AEADAlgorithmNegotiation record whose list has zero or
\* several entries makes the client return InvalidRecord, without aborting,
\* and one with a single entry sets aead_scheme to that entry.
C15_AeadOneEntry ==
    [][KeDispatching("AEADAlgorithmNegotiation") /\ ~ke_state.finished
         => IF Len(KeDispatched.rec.contents) \div 2 = 1
            THEN /\ ke_pc' = "record"
                 /\ ke_state'.aead_scheme = read_u16(KeDispatched.rec.contents, 0)
            ELSE ke_pc' = "done" /\ ke_ret' = Err("InvalidRecord")]_vars

\* C16 as stated: after NextProtocolNegotiation=[0],
\* AEADAlgorithmNegotiation=[15], N NewCookie records and EndOfMessage the
\* client returns Ok with the N cookies in the order sent, next_protocols
\* [0], aead_scheme 15, next_port 123 and the configured host.
C16_HappyPath ==
    (ke_conn.resp \in HappyResponses /\ KeEnded)
    => /\ ke_pc = "done"
       /\ ke_ret = Ok([aead_scheme |-> 15,
                       cookies |-> [i \in 1..(Len(ke_conn.resp) - 3) |->
                                       ke_conn.resp[i + 2].contents],
                       next_protocols |-> <<0>>,
                       next_server |-> ConfiguredHost,
                       next_port |-> 123])

\* the bytes that the first i extensions of a list take on the wire
RECURSIVE ExtsSpan(_, _)
ExtsSpan(exts, i) ==
    IF i = 0 THEN 0 ELSE ExtsSpan(exts, i - 1) + 4 + Len(exts[i].contents)

\* C21 as stated: every extension that parse_ntp_packet returns has as its
\* contents the (length - 4) bytes that follow its header in the input, all
\* of them inside the buffer (none zero-filled), and fewer than 4 bytes are
\* left unparsed.
C21_ContentsFromInput ==
    (c_in.kind = "raw" /\ c_stage = "parsed_ntp" /\ c_out.st = "Ok")
    => LET buff == c_wire.val
           exts == c_out.val.exts
       IN  /\ \A i \in 1..Len(exts) :
                LET from == HEADER_SIZE + ExtsSpan(exts, i - 1) + 4
                    to == HEADER_SIZE + ExtsSpan(exts, i)
                IN  /\ to <= Len(buff)
                    /\ read_u16(buff, from - 2) = 4 + Len(exts[i].contents)
                    /\ exts[i].contents = Slice(buff, from, to)
           /\ Len(buff) - (HEADER_SIZE + ExtsSpan(exts, Len(exts))) < 4

\* the first extension of a crafted packet is an NTSAuthenticator whose
\* declared contents are all in the buffer
FirstIsWholeAuthenticator ==
    /\ read_u16(c_wire.val, HEADER_SIZE) = EXT_TYPE_NTS_AUTHENTICATOR
    /\ FirstDeclaredLen >= 4
    /\ HEADER_SIZE + FirstDeclaredLen <= Len(c_wire.val)
\* 4 + round_up_4(nonce_len) + round_up_4(ct_len) of that authenticator
\* exceeds its contents length (or it has no room for the two lengths)
FirstAuthenticatorOverruns ==
    \/ FirstDeclaredLen - 4 < 4
    \/ 4 + RoundUp4(read_u16(c_wire.val, HEADER_SIZE + 4))
         + RoundUp4(read_u16(c_wire.val, HEADER_SIZE + 6)) > FirstDeclaredLen - 4

\* C22 as stated: parse_nts_packet returns Ok or Err for every buffer and
\* never aborts, and it returns an error whenever the lengths inside the
\* authenticator exceed the authenticator's contents.
C22_ParseNtsTotal ==
    (c_in.kind = "raw" /\ c_stage = "parsed_nts")
    => /\ c_out.st \in {"Ok", "Err"}
       /\ (FirstIsWholeAuthenticator /\ FirstAuthenticatorOverruns)
            => c_out.st = "Err"

\* the second half of C22 alone
C22_OverrunRefused ==
    (/\ c_in.kind = "raw" /\ c_stage = "parsed_nts"
     /\ FirstIsWholeAuthenticator /\ FirstAuthenticatorOverruns)
    => c_out.st = "Err"
C22_OverrunSeen ==
    /\ c_in.kind = "raw" /\ c_stage = "parsed_nts"
    /\ FirstIsWholeAuthenticator /\ FirstAuthenticatorOverruns
    /\ FirstDeclaredLen >= 8

\* the offset of the first NTSAuthenticator extension header, following the
\* declared lengths from pos; -1 when there is none
RECURSIVE FirstAuthAt(_, _)
FirstAuthAt(buff, pos) ==
    IF Len(buff) - pos < 4 THEN -1
    ELSE IF read_u16(buff, pos) = EXT_TYPE_NTS_AUTHENTICATOR THEN pos
    ELSE IF read_u16(buff, pos + 2) < 4 THEN -1
    ELSE FirstAuthAt(buff, pos + read_u16(buff, pos + 2))
\* the end of that extension, -1 when it does not end inside the buffer
FirstAuthEnd(buff) ==
    LET pos == FirstAuthAt(buff, HEADER_SIZE)
    IN  IF pos < 0 \/ read_u16(buff, pos + 2) < 4
           \/ pos + read_u16(buff, pos + 2) > Len(buff)
        THEN -1 ELSE pos + read_u16(buff, pos + 2)
\* the authenticator's contents as parse_nts_packet reads them, opened with
\* the bytes in front of the authenticator's header as associated data
OpenedOverPrefix(buff, key) ==
    LET pos == FirstAuthAt(buff, HEADER_SIZE)
    IN  parse_decrypt_auth_ext(
            Slice(buff, 0, pos),
            ReadInto(buff, pos + 4, read_u16(buff, pos + 2) - 4), key)

\* C23, first half: a buffer gives the outcome that its prefix up to the end
\* of the first NTSAuthenticator extension gives, whatever follows it.
C23_SuffixIgnored ==
    (c_in.kind = "raw" /\ c_stage = "parsed_nts" /\ FirstAuthEnd(c_wire.val) >= 0)
    => c_out = parse_nts_packet(Slice(c_wire.val, 0, FirstAuthEnd(c_wire.val)),
                                c_in.key, overflow_checks)
C23_SuffixSeen ==
    /\ c_in.kind = "raw" /\ c_stage = "parsed_nts" /\ c_out.st = "Ok"
    /\ FirstAuthEnd(c_wire.val) >= 0
    /\ Len(c_wire.val) >= FirstAuthEnd(c_wire.val) + 8

\* C23 as stated: the outcome depends only on the bytes up to the end of
\* the first NTSAuthenticator extension, and the associated data given to
\* the AEAD is the buffer in front of the authenticator's extension header:
\* the packet is accepted only if its authenticator opens over those bytes.
C23_PrefixDetermines ==
    /\ C23_SuffixIgnored
    /\ (c_in.kind = "raw" /\ c_stage = "parsed_nts" /\ c_out.st = "Ok")
         => OpenedOverPrefix(c_wire.val, c_in.key).st = "Ok"

\* C24 as stated: a request that the responder answers with an
\* NTS-authenticated reply carries exactly one UniqueIdentifier, one
\* NTSCookie and one NTSAuthenticator, the authenticator last.
C24_ExactlyOneEach ==
    (Handled /\ result.kind = "nts" /\ result.st = "Ok")
    => LET exts == QueryPacket.val.exts
       IN  /\ CountOf(exts, UniqueIdentifier, 0) = 1
           /\ CountOf(exts, NTSCookie, 0) = 1
           /\ CountOf(exts, NTSAuthenticator, 0) = 1
           /\ exts[Len(exts)].ext_type = NTSAuthenticator

\* in every request answered with an NTS reply each of the three occurs,
\* which is all that is_nts_packet asks for
C24_AtLeastOneEach ==
    (Handled /\ result.kind = "nts" /\ result.st = "Ok")
    => LET exts == QueryPacket.val.exts
       IN  /\ CountOf(exts, UniqueIdentifier, 0) >= 1
           /\ CountOf(exts, NTSCookie, 0) >= 1
           /\ CountOf(exts, NTSAuthenticator, 0) >= 1

\* the extensions of a sent packet from offset pos on: each a multiple of 4
\* bytes long and inside the packet, each but the last at least nonfinal
\* bytes and the last at least final bytes
RECURSIVE ExtensionsPadded(_, _, _, _)
ExtensionsPadded(buff, pos, nonfinal, final) ==
    IF pos = Len(buff) THEN TRUE
    ELSE IF Len(buff) - pos < 4 THEN FALSE
    ELSE LET len == read_u16(buff, pos + 2)
         IN  /\ len % 4 = 0 /\ len >= 4 /\ pos + len <= Len(buff)
             /\ IF pos + len = Len(buff) THEN len >= final
                ELSE /\ len >= nonfinal
                     /\ ExtensionsPadded(buff, pos + len, nonfinal, final)
\* the wire type of the last extension of a sent packet, -1 without one
RECURSIVE LastExtType(_, _, _)
LastExtType(buff, pos, last) ==
    IF Len(buff) - pos < 4 \/ read_u16(buff, pos + 2) < 4 THEN last
    ELSE LastExtType(buff, pos + read_u16(buff, pos + 2), read_u16(buff, pos))

\* C25 as stated: in every packet the responder sends each extension is a
\* multiple of 4 bytes long, every extension but the last at least 16 bytes
\* and the last at least 28 bytes, and the authenticator of an NTS reply is
\* its last extension.
C25_PaddingRule ==
    sent.full
    => /\ ExtensionsPadded(sent.data, HEADER_SIZE, 16, 28)
       /\ result.kind = "nts"
            => LastExtType(sent.data, HEADER_SIZE, -1) = EXT_TYPE_NTS_AUTHENTICATOR

\* what holds of every sent packet: whole extensions of a multiple of 4
\* bytes, and in an NTS reply an authenticator of at least 28 bytes last
C25_AlignedAuthenticatorLast ==
    sent.full
    => /\ ExtensionsPadded(sent.data, HEADER_SIZE, 4, 4)
       /\ result.kind = "nts"
            => /\ LastExtType(sent.data, HEADER_SIZE, -1) = EXT_TYPE_NTS_AUTHENTICATOR
               /\ ExtensionsPadded(sent.data, HEADER_SIZE, 4, 28)

\* every extension that parse_ntp_packet finds in the datagram received has
\* its contents inside the datagram
WholeExtensions ==
    /\ QueryPacket.st = "Ok"
    /\ HEADER_SIZE + ExtsSpan(QueryPacket.val.exts, Len(QueryPacket.val.exts))
         <= Len(query)

\* C26 as stated: no reply that the responder sends (plain, KoD or NTS) is
\* longer than the datagram that it answers.
C26_NoAmplification ==
    sent.full => Len(sent.data) <= Len(query)

\* the same for the datagrams whose extensions all lie inside them and
\* whose authenticator, if any, has a nonce of NONCE_LEN bytes
C26_OtherRequestsNotAmplified ==
    (sent.full /\ WholeExtensions /\ client.kind # "nts_short_nonce")
    => Len(sent.data) <= Len(query)

\* C27 as stated: every record that the inner loop takes from the buffer
\* (to hand to process_record, or to skip) ends inside the bytes that read()
\* has delivered, however the stream is split across the reads: zero-filled
\* buffer space that no read has written is never deserialized.
C27_WithinReceived ==
    (/\ ke_pc = "record" /\ ke_buf.curr <= ke_buf.len
     /\ KeDispatched.st \in {"Some", "None"})
    => ke_buf.curr + KeDispatched.n <= ke_buf.readptr

\* the contents of the NewCookie records among the first n records
RECURSIVE CookiesSent(_, _)
CookiesSent(resp, n) ==
    IF n = 0 THEN <<>>
    ELSE IF resp[n].code = 5
    THEN Append(CookiesSent(resp, n - 1), resp[n].contents)
    ELSE CookiesSent(resp, n - 1)

\* C28 as stated: the client returns Ok(NtsKeResult) only if the server's
\* stream holds an EndOfMessage record, and then with the contents of the
\* NewCookie records sent before it as its cookies; when the stream ends
\* before EndOfMessage the client does not return Ok.
C28_OkOnlyAfterEnd ==
    (ke_pc = "done" /\ ke_ret.st = "Ok")
    => /\ FirstEnd(ke_conn.resp) <= Len(ke_conn.resp)
       /\ ke_ret.val.cookies
            = CookiesSent(ke_conn.resp, FirstEnd(ke_conn.resp) - 1)

\* run_nts_ke_client is one thread that keeps running: a read returns (with
\* data, with 0 at the end of the stream, or with the timeout error after
\* TIMEOUT), and the loop takes the step it is at.  KeRecord can take a step
\* exactly when the client is at the inner loop (its arms cover every outcome
\* of deserialize_record and process_record), so its weak fairness is
\* written with ke_pc = "record" for ENABLED <<KeRecord>>_vars.
SpecKeLive ==
    /\ SpecKe
    /\ WF_vars(KeRead)
    /\ WF_vars(KeShutdown)
    /\ ([]<>(ke_pc # "record") \/ []<><<KeRecord>>_vars)

\* C29: run_nts_ke_client terminates: when every read returns data, the end
\* of the stream or the timeout error, the client eventually returns Ok or
\* Err.
C29_Returns == <>(ke_pc = "done")

\* the read loop does not run forever: the client returns or panics
C29_LoopEnds == <>(ke_pc \in {"done", "panicked"})

(***************************************************************************)
(* Properties of the key lock.                                             *)
(***************************************************************************)
\* the request thread is blocked in read(), the rotation thread in write()
HandlerBlocked == s_pc \in {"point", "latest"} /\ ~CanRead
RotatorBlocked == w_pc = "write" /\ ~CanWrite

\* C30: deadlock freedom on the key lock: under any lock policy the request
\* handler and the rotation writer are never both blocked on the lock.
C30_NoDeadlock == ~(HandlerBlocked /\ RotatorBlocked)

\* the first half of C30: the handler never requests the lock while it
\* holds a read guard on it
C30_NoNestedRead == s_pc \in {"point", "latest"} => lock.readers = 0

\* under a lock that lets readers pass a waiting writer the two threads are
\* never both blocked
C30_ReadersFirstNoDeadlock ==
    policy = "readers_first" => ~(HandlerBlocked /\ RotatorBlocked)

\* the lock does what an RwLock does: the write guard is alone, the read
\* guards are those of the request thread, and the keys do not change under
\* a read guard
LockExclusion ==
    /\ ~(lock.writer /\ lock.readers > 0)
    /\ lock.writer <=> w_pc \in {"rotating", "rotated"}
    /\ lock.readers = (CASE s_pc \in {"latest", "drop"} -> 1
                         [] s_pc = "latest_held" -> 2
                         [] OTHER -> 0)

KeysStableUnderRead == [][lock.readers > 0 => key_rot' = key_rot]_vars

(***************************************************************************)
(* The timestamp of the reply.  Datagrams are received at times on both    *)
(* sides of the points where a field could turn over: the second in which  *)
(* the seconds since 1900 pass 2^32, fractions next to 0, to a half and to  *)
(* the full second, and fractions whose image lies next to a half unit.    *)
(***************************************************************************)
ReceiveSecs ==
    {<<0, 0>>, StartTime.secs, <<31829, 33151>>, <<31829, 33152>>,
     <<32767, 65535>>, <<65535, 65535>>}
ReceiveNanos ==
    {0, 1, 2, 3, 232, 233, 355614, 1597511, 123456789, 250000000,
     499999999, 500000000, 500000001, 750000000, 998402489, 999644386,
     999999997, 999999998, 999999999}
ReceiveTimes == {[secs |-> s, nanos |-> n] : s \in ReceiveSecs, n \in ReceiveNanos}

InitTime ==
    /\ overflow_checks \in BOOLEAN
    /\ IdleKe
    /\ IdleLock
    /\ IdleCodec
    /\ ServerReady

\* socket.recv_from into the BUF_SIZE buffer, then SystemTime::now() at any
\* of the receive times
RecvFromAt ==
    /\ s_pc = "recv" /\ net.full
    /\ query' = SubSeq(net.data, 1, Min(Len(net.data), BUF_SIZE))
    /\ ts' \in ReceiveTimes
    /\ net' = NoDatagram
    /\ s_pc' = "respond"
    /\ UNCHANGED <<ke_vars, lock_vars, codec_vars, overflow_checks, key_rot,
                   boot_vars, client, result, sent>>

NextTime == SendRaw \/ RecvFromAt \/ HandlerResponse \/ Replied

SpecTime == InitTime /\ [][NextTime]_vars

\* ntp is unix + 2 208 988 800 modulo 2^32 (2 208 988 800 is
\* 33706 * 65536 + 32384), on pairs of base-65536 digits
SecondsSince1900(unix, ntp) ==
    LET borrow == IF ntp[2] - 32384 < unix[2] THEN 1 ELSE 0
    IN  /\ ntp[2] - 32384 + 65536 * borrow = unix[2]
        /\ (ntp[1] - 33706 - borrow - unix[1] + 131072) % 65536 = 0

\* base-256 digits, least significant first, of the digit-wise sum c:
\* the carries are passed upwards
RECURSIVE Carried(_, _, _)
Carried(c, i, carry) ==
    IF i > Len(c) THEN <<>>
    ELSE <<(c[i] + carry) % 256>> \o Carried(c, i + 1, (c[i] + carry) \div 256)

\* the value of the signed base-256 digits d[1..k] on top of acc, or -1 as
\* soon as it can no longer lie in 0..10^9
RECURSIVE Horner(_, _, _)
Horner(d, k, acc) ==
    IF k = 0 THEN acc
    ELSE IF acc > 4194304 \/ acc < -4194304 THEN -1
    ELSE Horner(d, k - 1, acc * 256 + d[k])

\* f (four bytes, big-endian) is nanos * 2^32 / 10^9 rounded to the nearest
\* integer: 0 <= nanos * 2^32 + 10^9 / 2 - f * 10^9 < 10^9, computed on
\* base-256 digits (10^9 is 59, 154, 202, 0 and its half 29, 205, 101, 0)
RoundedFraction(nanos, f) ==
    LET q == <<f[4], f[3], f[2], f[1]>>
        e == <<0, 202, 154, 59>>
        prod == [k \in 1..8 |->
                    IF k = 8 THEN 0
                    ELSE LET lo == IF k > 4 THEN k - 3 ELSE 1
                             hi == IF k < 4 THEN k ELSE 4
                             term[i \in lo..(hi + 1)] ==
                                 IF i > hi THEN 0
                                 ELSE q[i] * e[k + 1 - i] + term[i + 1]
                         IN  term[lo]]
        y == Carried(prod, 1, 0)
        x == <<0, 101, 205, 29,
               nanos % 256, (nanos \div 256) % 256, (nanos \div 65536) % 256,
               nanos \div 16777216>>
        rest == Horner([k \in 1..8 |-> x[k] - y[k]], 8, 0)
    IN  0 <= rest /\ rest < BILLION

\* the eight bytes of a timestamp at offset pos of a reply are those of the
\* receipt at time
StampOf(reply, pos, time) ==
    /\ SecondsSince1900(time.secs, read_u32(reply, pos))
    /\ RoundedFraction(time.nanos, Slice(reply, pos + 4, pos + 8))

\* C31: the timestamp of a reply has the seconds since 1900 of the receipt
\* (its Unix seconds + 2 208 988 800, modulo 2^32) in its high 32 bits and
\* the rounded frac_ns * 2^32 / 10^9 in its low 32 bits; the fraction stays
\* below 2^32 and never carries into the seconds.
C31_TimestampFormat ==
    result.kind = "plain"
    => /\ StampOf(result.val, 32, ts)
       /\ StampOf(result.val, 40, ts)

\* a plain reply to a datagram received in the last nanosecond before the
\* seconds since 1900 pass 2^32: seconds FFFF_FFFF, fraction FFFF_FFFC
C31_Witness ==
    /\ result.kind = "plain"
    /\ ts = [secs |-> <<31829, 33151>>, nanos |-> 999999999]
    /\ Slice(result.val, 32, 40) = <<255, 255, 255, 255, 255, 255, 255, 252>>

=========================================================================
